---- MODULE Spec2Model ----
(***************************************************************************)
(* Model of the tgo function-call tracer: the tracer Controller event loop *)
(* (MainLoop / handle_trap), the breakpoint table, and the debug-API       *)
(* client operations it drives (ContinueAndWait, StepAndWait, stop-reply   *)
(* handling), together with a small multi-task inferior.                   *)
(***************************************************************************)
EXTENDS Integers, Sequences, FiniteSets, TLC

\* ------------------------------------------------------------------ bounds
MaxCalls == 2        \* calls the tasks of the inferior make altogether

\* ---------------------------------------------------------------- inferior
Tasks == {1, 2}
Funcs == {1, 2, 3}               \* 1 = root function of every task
TraceLevels == {1, 2}

Callees(f) == IF f = 3 THEN {} ELSE {2, 3}

\* Text addresses.  Every function f has an entry instruction and one return
\* site (the instruction after its call instruction); 0 is the runtime frame
\* the root function returns to.
Entry(f) == 10 * f
RetSite(f) == 10 * f + 5
Body(f) == 10 * f + 2
EntryAddrs == {Entry(f) : f \in Funcs}
RetAddrs == {RetSite(f) : f \in Funcs \cup {0}}
BpAddrs == EntryAddrs \cup RetAddrs
FuncAt(a) == a \div 10

Front(s) == SubSeq(s, 1, Len(s) - 1)
Top(s) == s[Len(s)]
CallerOf(s) == IF Len(s) >= 2 THEN s[Len(s) - 1] ELSE 0

VARIABLES
    \* inferior
    mem,          \* [BpAddrs -> {"orig","trap","unmapped"}] : byte at each text address
    pc,           \* [Tasks -> Int] : program counter, 0 = task finished
    cstack,       \* [Tasks -> Seq(Funcs)] : the task's real call stack
    calls,        \* calls made so far by all tasks
    trapped,      \* set of tasks whose stop info reports SIGTRAP
    proc,         \* "stopped" | "running" | "exited" | "terminated" | "detached"
    maxprocs,     \* GOMAXPROCS of the inferior: 1 or 2 OS threads
    sigq,         \* TRUE when a stop signal was sent and not yet reported
    missed,       \* ghost: tasks that ran through an installed breakpoint address
    \* debug-API client
    pendingSignal,
    \* controller
    cpc,          \* "idle" | "loop" | "wait" | "handle" | "done"
    result,       \* "none" | "nil" | "Interrupted" | "error"
    interrupted,
    pendingStart, pendingEnd,   \* trace points added, not yet installed
    startPoints, endPoints,
    breakpoints,  \* set of [addr, orig, transient]
    stepOver,     \* set of <<addr, task>> : step-over windows that are open
    frames,       \* [Tasks -> Seq([func, depth, ret])] : controller's call stacks
    inWindow,     \* [Tasks -> BOOLEAN] : task is between a start and an end point
    baseline,     \* [Tasks -> Nat] : real stack depth at the start point
    out,          \* [Tasks -> Seq([kind, func, depth])] : lines emitted per task
    todo,         \* trapped tasks of the current event still to handle
    traceLevel,
    last,         \* ghost: the last call-stack operation of the controller
    \* binary
    dwarf,        \* the functions the binary's DWARF resolves
    \* debug-API client, ReadTLS
    regs,             \* [Tasks -> [rip, rsp, rcx, rax]] : the threads' registers
    stubMem,          \* offset the stub in the inferior loads; NotWritten: no stub yet
    currentTLSOffset, \* offset the client recorded for the stub
    connOpen,         \* the connection to the debug server is open
    tlsRet,           \* what the last ReadTLS returned
    tlsLog,           \* ghost: the course of the last ReadTLS
    \* debug-API client, register packets
    regData,          \* hex text of the stopped thread's register file (g reply)
    rcvData,          \* ghost: the register data the last ReadRegisters received
    sentData,         \* data of the last G packet sent, <<>> when none
    gotRegs,          \* Registers the last ReadRegisters returned
    \* debug-API client, waiting for a stop
    wst,              \* "idle" | "waiting" | "returned" : position of the client
    batches,          \* reads that delivered packets or timed out so far
    written,          \* bytes written to the output writer since the wait began
    produced,         \* ghost: bytes the inferior printed in the batches read since
    event,            \* the event the last wait returned
    evFrom,           \* ghost: the packet the returned event was built from
    waitErr,          \* the error the last wait returned, "nil" when none
    resumes,          \* ghost: the signal passed with each resume of this wait
    dropped,          \* ghost: the kinds of the stop replies this wait left unhandled
    step,             \* [thread, ret]: the thread StepAndWait steps, 0 for a
                      \* continue, and what StepAndWait returned
    \* debug-API client, the session
    sess,             \* "new" | "ready" | "ended"
    endedBy,          \* ghost: the way the session ended, "none" while it has not
    killOnDetach,     \* the inferior was launched: detaching kills it
    allocated,        \* addresses allocated in the inferior and not deallocated
    sessErr,          \* the error the call that ended the session returned
    sessLog,          \* ghost: [way, cmd]: the call that started the session and
                      \* the request DetachProcess sent
    \* debug-API client, waitConnectOrExit
    mpc,              \* the caller: "init" | "run" | "select" | "returned"
    wpc,              \* the helper on cmd.Wait: "none" | "waiting" | "sending" | "done"
    apc,              \* the helper on Accept: "none" | "accepting" | "sendNil" |
                      \* "sendConn" | "done"
    accepted,         \* conn of the accepting helper: "none" | "conn" | "nil"
    wret,             \* what waitConnectOrExit returned: [conn, err]
    order,            \* ghost: the helpers' results in the order they came
    \* the service
    controller,       \* t.controller: 0 for nil, else the number of the controller
    made,             \* controllers made so far
    mtx,              \* t.mtx: "free" | "held"
    loop,             \* per controller, its MainLoop goroutine: "none" |
                      \* "running" | "sending" | "done"
    loopErr,          \* per controller, the result its MainLoop sends
    intr,             \* the controllers Interrupt() was called on
    rcv,              \* the goroutine of Detach: "none" | "waiting" | "got" | "reset"
    reply,            \* the last RPC call and what it returned
    svcLog,           \* ghost: what the service has done, see NoSvcLog
    \* the value parser
    valTyp,           \* the type of the value to render
    valBuf,           \* its bytes
    valMem,           \* what ReadMemory gives: [ok, byte]
    rendered,         \* the text of the value, "" before it is rendered
    valReads,         \* ghost: the reads of inferior memory made, -1 before
    \* debug-API client, the packets of initialize()
    noAckMode,        \* c.noAckMode
    ipc,              \* [req, reg, at]: the request initialize() is at, the
                      \* register qRegisterInfo asks for, and "send" | "receive" |
                      \* "done" | "failed"
    sent,             \* ghost: the last packet sent: [body, cc, awaited]
    rcvd,             \* ghost: the last reply read: [body, verified, acked]
    \* a function of the program applied to one input
    fnArg,            \* the argument, "none" when no function is under check
    fnRes             \* what the function returned, "none" before

infVars == <<mem, pc, cstack, calls, trapped, proc, maxprocs, sigq, missed>>
ctlVars == <<cpc, result, interrupted, pendingStart, pendingEnd, startPoints,
             endPoints, breakpoints, stepOver, frames, inWindow, baseline,
             out, todo, traceLevel, last>>
tlsVars == <<regs, stubMem, currentTLSOffset, connOpen, tlsRet, tlsLog>>
regVars == <<regData, rcvData, sentData, gotRegs>>
waitVars == <<wst, batches, written, produced, event, evFrom, waitErr, resumes,
             dropped, step>>
sessVars == <<sess, endedBy, killOnDetach, allocated, sessErr, sessLog>>
connVars == <<mpc, wpc, apc, accepted, wret, order>>
svcVars == <<controller, made, mtx, loop, loopErr, intr, rcv, reply, svcLog>>
valVars == <<valTyp, valBuf, valMem, rendered, valReads>>
pktVars == <<noAckMode, ipc, sent, rcvd>>
funVars == <<fnArg, fnRes>>
auxVars == <<dwarf, tlsVars, regVars, waitVars, sessVars, connVars, svcVars, valVars,
             pktVars, funVars>>
vars == <<infVars, pendingSignal, ctlVars, auxVars>>

\* ------------------------------------------------- the inferior's execution
Outcome(p, s, c, tr, th, cr) ==
    [pc |-> p, st |-> s, calls |-> c, trap |-> tr, through |-> th, crash |-> cr]

\* After the instruction at a breakpoint-able address a was executed.
AfterInstr(a) == IF a = RetSite(0) THEN 0 ELSE Body(FuncAt(a))

\* An address is mapped once the loader has put the text holding it into the
\* inferior's address space; before that its byte cannot be read or written.
Mapped(m, a) == m[a] # "unmapped"

\* One instruction of a task whose program counter is p, call stack s and call
\* count c, with text memory m.  A trap byte raises SIGTRAP and leaves the
\* program counter one past the address.  Resuming one byte into an instruction
\* (program counter left at a+1 over a restored instruction) is undefined:
\* the task either goes on or the process is killed.
ExecOutcomes(p, s, c, m) ==
    IF p \in BpAddrs THEN
        IF m[p] = "trap"
        THEN {Outcome(p + 1, s, c, TRUE, FALSE, FALSE)}
        ELSE {Outcome(AfterInstr(p), s, c, FALSE, TRUE, FALSE)}
    ELSE IF p - 1 \in BpAddrs THEN
        {Outcome(AfterInstr(p - 1), s, c, FALSE, FALSE, FALSE),
         Outcome(p, s, c, FALSE, FALSE, TRUE)}
    ELSE IF p = 0 \/ s = <<>> THEN {}
    ELSE
        {Outcome(Entry(g), Append(s, g), c + 1, FALSE, FALSE, FALSE) :
            g \in IF c < MaxCalls
                  THEN {h \in Callees(Top(s)) : Mapped(m, Entry(h))} ELSE {}}
        \cup {Outcome(RetSite(CallerOf(s)), Front(s), c, FALSE, FALSE, FALSE)}
        \cup (IF Len(s) >= 2      \* a recovered panic unwinds the frame
              THEN {Outcome(Body(CallerOf(s)), Front(s), c, FALSE, FALSE, FALSE)}
              ELSE {})

HasBreakpoint(bps, a) == \E b \in bps : b.addr = a

\* Tasks that executed the original instruction at an address of the
\* breakpoint table without being the task stepped over it.
Missed(t, o, a, bps) ==
    IF o.through /\ HasBreakpoint(bps, a) THEN {t} ELSE {}

AllDone(pcs) == \A t \in Tasks : pcs[t] = 0

\* The inferior runs (between a continue and the next stop report): one task
\* executes one instruction.  With one OS thread nothing runs once a task trapped.
InferiorRun(t) ==
    /\ cpc = "wait" /\ proc = "running"
    /\ t \notin trapped
    /\ maxprocs = 1 => trapped = {}
    /\ \E o \in ExecOutcomes(pc[t], cstack[t], calls, mem) :
        /\ pc' = [pc EXCEPT ![t] = o.pc]
        /\ cstack' = [cstack EXCEPT ![t] = o.st]
        /\ calls' = o.calls
        /\ trapped' = IF o.trap THEN trapped \cup {t} ELSE trapped
        /\ missed' = missed \cup Missed(t, o, pc[t], breakpoints)
        /\ proc' = IF o.crash THEN "terminated"
                   ELSE IF AllDone(pc') THEN "exited" ELSE "running"
    /\ UNCHANGED auxVars
    /\ UNCHANGED <<mem, maxprocs, sigq, pendingSignal, ctlVars>>

\* ------------------------------------------------------- breakpoint manager
Bp(a, byte, tr) == [addr |-> a, orig |-> byte, transient |-> tr]

\* Mutant: Install without the Exists check.
InstallTwice(bps, m, a, tr) ==
    [bps |-> bps \cup {Bp(a, m[a], tr)}, mem |-> [m EXCEPT ![a] = "trap"]]

\* Install: nothing when the address has an entry or is not mapped yet (the
\* byte cannot be read); else remember the byte read at the address and write
\* the trap byte.
Install(bps, m, a, tr) ==
    IF HasBreakpoint(bps, a) \/ ~Mapped(m, a)
    THEN [bps |-> bps, mem |-> m]
    ELSE [bps |-> bps \cup {Bp(a, m[a], tr)}, mem |-> [m EXCEPT ![a] = "trap"]]

RECURSIVE InstallAll(_, _, _, _)
InstallAll(bps, m, A, tr) ==
    IF A = {} THEN [bps |-> bps, mem |-> m]
    ELSE LET a == CHOOSE x \in A : TRUE
             r == Install(bps, m, a, tr)
         IN InstallAll(r.bps, r.mem, A \ {a}, tr)

\* The byte an address holds once every entry of the table at it is cleared.
SavedByte(bps, m, a) ==
    IF HasBreakpoint(bps, a) THEN (CHOOSE b \in bps : b.addr = a).orig ELSE m[a]

\* Clear: write the saved byte back and drop the entry.
Clear(bps, m, a) ==
    [bps |-> {b \in bps : b.addr # a}, mem |-> [m EXCEPT ![a] = SavedByte(bps, m, a)]]

\* Mutant: the table is emptied, the saved bytes are not written back.
ClearAllTableOnly(bps, m) == [bps |-> {}, mem |-> m]

\* ClearAll: clear every entry of the table.
ClearAll(bps, m) ==
    [bps |-> {}, mem |-> [a \in BpAddrs |-> SavedByte(bps, m, a)]]

\* ---------------------------------------------------------- debug-API client
\* StepAndWait(t): resume thread t for one instruction and wait for the stop.
\* Other threads of a multi-threaded inferior may execute while t is stepped.
\* Mutant: other threads run during a step whatever the thread count.
OthersAlwaysRun == TRUE

OthersRunDuringStep == maxprocs > 1

OtherMoves(t, m, c) ==
    {[task |-> 0, o |-> Outcome(0, <<>>, c, FALSE, FALSE, FALSE)]}
    \cup UNION {{[task |-> u, o |-> o] :
                    o \in ExecOutcomes(pc[u], cstack[u], c, m)} :
                 u \in {x \in Tasks \ {t} : OthersRunDuringStep /\ x \notin trapped}}

\* Mutant: the step is accepted when the stepped thread is among the trapped.
StepStatusLoose(t, ids, ended) ==
    IF ended THEN "unexpected"
    ELSE IF t \notin ids THEN "unspecified"
    ELSE "ok"

\* The event wait() builds for a step, and what StepAndWait returns for it.
StepStatus(t, ids, ended) ==
    IF ended THEN "unexpected"          \* event.Type != EventTypeTrapped
    ELSE IF ids # {t} THEN "unspecified"  \* UnspecifiedThreadError{ids}
    ELSE "ok"

\* One result of StepAndWait(t): o is what the stepped thread did, mv what
\* another thread did meanwhile (mv.task = 0: nothing).
StepResult(t, o, mv, bps) ==
    LET u == mv.task
        pc1 == [pc EXCEPT ![t] = o.pc]
        pc2 == IF u = 0 THEN pc1 ELSE [pc1 EXCEPT ![u] = mv.o.pc]
        st1 == [cstack EXCEPT ![t] = o.st]
        st2 == IF u = 0 THEN st1 ELSE [st1 EXCEPT ![u] = mv.o.st]
        ended == o.crash \/ mv.o.crash \/ AllDone(pc2)
        ids == {t} \cup (IF u # 0 /\ mv.o.trap THEN {u} ELSE {})
    IN [pc |-> pc2, cstack |-> st2, calls |-> mv.o.calls,
        trapped |-> (trapped \ {t}) \cup (IF u # 0 /\ mv.o.trap THEN {u} ELSE {}),
        missed |-> IF u = 0 THEN {} ELSE Missed(u, mv.o, pc[u], bps),
        proc |-> IF o.crash \/ mv.o.crash THEN "terminated"
                 ELSE IF AllDone(pc2) THEN "exited" ELSE "stopped",
        status |-> StepStatus(t, ids, ended)]

\* What StepAndWait(t) returns for the event ev that wait() built for the step
\* (type "error": wait() itself returned an error).
NoEvent == [type |-> "none", ids |-> {}]

StepAndWait(t, ev) ==
    IF ev.type = "error" THEN [event |-> NoEvent, err |-> "wait", ids |-> {}]
    ELSE LET st == StepStatus(t, ev.ids, ev.type # "Trapped")
         IN IF st = "unexpected"
            THEN [event |-> NoEvent, err |-> "unexpected event", ids |-> {}]
            ELSE IF st = "unspecified"
            THEN [event |-> NoEvent, err |-> "UnspecifiedThreadError", ids |-> ev.ids]
            ELSE [event |-> ev, err |-> "nil", ids |-> {}]

\* Every result of StepAndWait(t) from program counter p with text memory m.
StepResults(t, p, m, bps) ==
    UNION {{StepResult(t, o, mv, bps) : mv \in OtherMoves(t, m, o.calls)} :
           o \in ExecOutcomes(p, cstack[t], calls, m)}

\* ------------------------------------------------------- the client: ReadTLS
TlsOffsets == {0, 8}
readTLSFuncAddr == 900               \* where the stub was allocated
StubEnd == readTLSFuncAddr + 9       \* the stub is 9 bytes long
\* The word at an offset of a thread's TLS block.
TlsWord(t, off) == 100 * t + off
Garbage == 0 - 1
NotWritten == 0 - 1                  \* stub region allocated, nothing written

\* Registers: the three registers the client reads and writes.
Registers(r) == [Rip |-> r.rip, Rsp |-> r.rsp, Rcx |-> r.rcx]
NoRegisters == [Rip |-> 0, Rsp |-> 0, Rcx |-> 0]

\* WriteRegisters(t, v): read the register data of t, replace rip, rsp and rcx
\* in it and send it back.  how = "read": the read failed and nothing is
\* written; "nack": the write was sent and refused; "ok": written.
WriteRegisters(r, t, v, how) ==
    [regs |-> IF how = "ok"
              THEN [r EXCEPT ![t].rip = v.Rip, ![t].rsp = v.Rsp, ![t].rcx = v.Rcx]
              ELSE r,
     issued |-> how # "read",
     err |-> how # "ok"]

\* updateReadTLSFunction(off): the stub is written when the offset differs
\* from the recorded one.
updateReadTLSFunction(off, fails) ==
    IF currentTLSOffset = off
    THEN [err |-> FALSE, stub |-> stubMem, cur |-> currentTLSOffset]
    ELSE IF fails THEN [err |-> TRUE, stub |-> stubMem, cur |-> currentTLSOffset]
    ELSE [err |-> FALSE, stub |-> off, cur |-> off]

\* The single step of thread t at the stub: t executed it when it is among the
\* stopped threads of a Trapped event; its scratch register then holds the
\* loaded word.
AfterStub(r, t, ev, stub) ==
    IF ev.type = "Trapped" /\ t \in ev.ids
    THEN [r EXCEPT ![t].rip = StubEnd,
                   ![t].rcx = IF stub = NotWritten THEN Garbage ELSE TlsWord(t, stub)]
    ELSE r

\* The events wait() can build for a step.
StepEvents ==
    {[type |-> "Trapped", ids |-> S] : S \in SUBSET Tasks \ {{}}}
    \cup {[type |-> k, ids |-> {}] : k \in {"Exited", "Terminated", "error"}}

\* What can fail in one ReadTLS(t, ..), and what its step gives: one request
\* before the step fails, or the step and the requests after it go any way.
Hows == {"ok", "read", "nack"}

TlsChoices(t) ==
    LET d == [upd |-> FALSE, read1 |-> FALSE, write1 |-> "ok",
              ev |-> [type |-> "Trapped", ids |-> {t}], read2 |-> FALSE,
              restore |-> "ok"]
    IN {[d EXCEPT !.upd = TRUE], [d EXCEPT !.read1 = TRUE]}
       \cup {[d EXCEPT !.write1 = w, !.restore = h] : w \in {"read", "nack"}, h \in Hows}
       \cup {[d EXCEPT !.ev = e, !.read2 = b, !.restore = h] :
                e \in StepEvents, b \in BOOLEAN, h \in Hows}

NoLog == [task |-> 0, snap |-> NoRegisters, snapped |-> FALSE,
          lastWrite |-> NoRegisters, wrote |-> FALSE, restoreCalled |-> FALSE,
          lastCall |-> NoRegisters,
          restored |-> FALSE, ev |-> NoEvent, step |-> StepAndWait(0, NoEvent),
          stepped |-> FALSE, stubAtStep |-> NotWritten, off |-> 0]

TlsReturn(v, e, ids) == [val |-> v, err |-> e, ids |-> ids]

\* Mutant: the registers are written back on the successful path only.
RestoreOnSuccess(lg, r, t, how, failed) ==
    IF failed THEN [regs |-> r, log |-> lg]
    ELSE LET w == WriteRegisters(r, t, lg.snap, how)
         IN [regs |-> w.regs,
             log |-> [lg EXCEPT !.restoreCalled = TRUE, !.restored = ~w.err,
                                !.lastCall = lg.snap,
                                !.wrote = lg.wrote \/ w.issued,
                                !.lastWrite = IF w.issued THEN lg.snap ELSE lg.lastWrite]]

\* The deferred WriteRegisters(t, originalRegs): it runs on every return after
\* the snapshot, and its error is assigned to a local variable only.
Restore(lg, r, t, how, failed) ==
    LET w == WriteRegisters(r, t, lg.snap, how)
    IN [regs |-> w.regs,
        log |-> [lg EXCEPT !.restoreCalled = TRUE, !.restored = ~w.err,
                                !.lastCall = lg.snap,
                           !.wrote = lg.wrote \/ w.issued,
                           !.lastWrite = IF w.issued THEN lg.snap ELSE lg.lastWrite]]

\* ReadTLS(t, off) under the choices c of what fails and what the step gives.
ReadTLSResult(t, off, c) ==
    LET u == updateReadTLSFunction(off, c.upd)
        lg0 == [NoLog EXCEPT !.task = t, !.off = off]
        Out(r, ret, lg, open) ==
            [regs |-> r, ret |-> ret, log |-> lg, stub |-> u.stub, cur |-> u.cur,
             open |-> open]
    IN IF u.err THEN Out(regs, TlsReturn(0, "write memory", {}), lg0, TRUE)
       ELSE IF c.read1 THEN Out(regs, TlsReturn(0, "read registers", {}), lg0, TRUE)
       ELSE
       LET originalRegs == Registers(regs[t])
           lg1 == [lg0 EXCEPT !.snap = originalRegs, !.snapped = TRUE]
           modifiedRegs == [originalRegs EXCEPT !.Rip = readTLSFuncAddr]
           w1 == WriteRegisters(regs, t, modifiedRegs, c.write1)
           lg2 == [lg1 EXCEPT !.wrote = w1.issued, !.lastCall = modifiedRegs,
                              !.lastWrite = IF w1.issued THEN modifiedRegs
                                            ELSE NoRegisters]
       IN IF w1.err
          THEN LET d == Restore(lg2, w1.regs, t, c.restore, TRUE)
               IN Out(d.regs, TlsReturn(0, "write registers", {}), d.log, TRUE)
          ELSE
          LET st == StepAndWait(t, c.ev)
              r3 == AfterStub(w1.regs, t, c.ev, u.stub)
              open == c.ev.type \notin {"Exited", "Terminated"}
              lg3 == [lg2 EXCEPT !.ev = c.ev, !.step = st, !.stepped = TRUE,
                                 !.stubAtStep = u.stub]
              \* a closed connection fails every later request
              how == IF open THEN c.restore ELSE "read"
          IN IF st.err # "nil"
             THEN LET d == Restore(lg3, r3, t, how, TRUE)
                  IN Out(d.regs, TlsReturn(0, st.err, st.ids), d.log, open)
             ELSE IF c.read2
             THEN LET d == Restore(lg3, r3, t, how, TRUE)
                  IN Out(d.regs, TlsReturn(0, "read registers", {}), d.log, open)
             ELSE LET d == Restore(lg3, r3, t, how, FALSE)
                  IN Out(d.regs, TlsReturn(r3[t].rcx, "nil", {}), d.log, open)

ReadTLS(t, off) ==
    /\ connOpen
    /\ \E o \in {ReadTLSResult(t, off, c) : c \in TlsChoices(t)} :
        /\ regs' = o.regs
        /\ tlsRet' = o.ret
        /\ tlsLog' = o.log
        /\ stubMem' = o.stub
        /\ currentTLSOffset' = o.cur
        /\ connOpen' = o.open
    /\ UNCHANGED <<infVars, pendingSignal, ctlVars, dwarf, pktVars, funVars, valVars, svcVars, sessVars, connVars, regVars, waitVars>>

\* State of the client after initialize(): the stub region is allocated and
\* not written, the recorded offset is the zero value.
TlsIdle ==
    /\ regs = [t \in Tasks |-> [rip |-> Body(1), rsp |-> 0, rcx |-> 0, rax |-> 0]]
    /\ stubMem = NotWritten
    /\ currentTLSOffset = 0
    /\ connOpen = TRUE
    /\ tlsRet = TlsReturn(0, "nil", {})
    /\ tlsLog = NoLog

\* ---------------------------------------------- the client: register packets
\* Hex text is a sequence of one-character strings; a uint64 is the sequence
\* of its hexadecimal digits (values 0..15) without leading zeros.
HexDigits == <<"0", "1", "2", "3", "4", "5", "6", "7",
               "8", "9", "a", "b", "c", "d", "e", "f">>
HexWidth == 16                       \* "%016x"

NibbleOf(ch) == CHOOSE v \in 0..15 : HexDigits[v + 1] = ch

RECURSIVE StripZeros(_)
StripZeros(n) == IF n # <<>> /\ Head(n) = 0 THEN StripZeros(Tail(n)) ELSE n

\* strconv.ParseUint(hex, 16, 64)
ParseUint(hex) == StripZeros([i \in 1..Len(hex) |-> NibbleOf(hex[i])])

\* The byte pairs of a hex text in reverse order.
ReversePairs(hex) ==
    [i \in 1..Len(hex) |->
        hex[2 * ((Len(hex) \div 2) - 1 - ((i - 1) \div 2)) + ((i - 1) % 2) + 1]]

hexToUint64(hex, littleEndian) ==
    ParseUint(IF littleEndian THEN ReversePairs(hex) ELSE hex)

\* fmt.Sprintf("%016x", input)
Sprintf016x(n) ==
    IF Len(n) >= HexWidth THEN [i \in 1..Len(n) |-> HexDigits[n[i] + 1]]
    ELSE [i \in 1..HexWidth |->
            IF i <= HexWidth - Len(n) THEN "0"
            ELSE HexDigits[n[i - (HexWidth - Len(n))] + 1]]

\* Mutant: the text is not turned to little endian.
uint64ToHexBigEndian(input, littleEndian) == Sprintf016x(input)

uint64ToHex(input, littleEndian) ==
    IF littleEndian THEN ReversePairs(Sprintf016x(input)) ELSE Sprintf016x(input)

\* registerMetadataList as collected from the debug server: name, offset and
\* size in bytes.
registerMetadataList ==
    <<[name |-> "rax", offset |-> 0, size |-> 8],
      [name |-> "rcx", offset |-> 8, size |-> 8],
      [name |-> "rsp", offset |-> 16, size |-> 8],
      [name |-> "rip", offset |-> 24, size |-> 8],
      [name |-> "rflags", offset |-> 32, size |-> 4]>>

Field(data, md) == SubSeq(data, md.offset * 2 + 1, (md.offset + md.size) * 2)

\* parseRegisterData: rip, rsp and rcx are decoded, every other register is
\* skipped.
RECURSIVE parseRegisterDataFrom(_, _, _)
parseRegisterDataFrom(data, mds, acc) ==
    IF mds = <<>> THEN acc
    ELSE LET md == Head(mds)
             v == hexToUint64(Field(data, md), TRUE)
             nxt == IF md.name = "rip" THEN [acc EXCEPT !.Rip = v]
                    ELSE IF md.name = "rsp" THEN [acc EXCEPT !.Rsp = v]
                    ELSE IF md.name = "rcx" THEN [acc EXCEPT !.Rcx = v]
                    ELSE acc
         IN parseRegisterDataFrom(data, Tail(mds), nxt)

parseRegisterData(data) ==
    parseRegisterDataFrom(data, registerMetadataList,
                          [Rip |-> <<>>, Rsp |-> <<>>, Rcx |-> <<>>])

\* WriteRegisters: in the register data just read, the text of rip, rsp and
\* rcx is replaced by the encoding of the given values.
RECURSIVE writeRegisterDataFrom(_, _, _)
writeRegisterDataFrom(data, mds, rg) ==
    IF mds = <<>> THEN data
    ELSE LET md == Head(mds)
             prefix == SubSeq(data, 1, md.offset * 2)
             suffix == SubSeq(data, (md.offset + md.size) * 2 + 1, Len(data))
             nxt == IF md.name = "rip" THEN prefix \o uint64ToHex(rg.Rip, TRUE) \o suffix
                    ELSE IF md.name = "rsp" THEN prefix \o uint64ToHex(rg.Rsp, TRUE) \o suffix
                    ELSE IF md.name = "rcx" THEN prefix \o uint64ToHex(rg.Rcx, TRUE) \o suffix
                    ELSE data
         IN writeRegisterDataFrom(nxt, Tail(mds), rg)

writeRegisterData(data, rg) == writeRegisterDataFrom(data, registerMetadataList, rg)

\* Register texts the debug server sends (lower-case hex, little endian).
Zeros(n) == [i \in 1..n |-> "0"]
RegTexts ==
    {Zeros(HexWidth),
     <<"0", "1">> \o Zeros(HexWidth - 2),
     Zeros(HexWidth - 2) \o <<"8", "0">>,
     <<"e", "f", "c", "d", "a", "b", "8", "9", "6", "7", "4", "5", "2", "3", "0", "1">>,
     [i \in 1..HexWidth |-> "f"]}
FlagTexts == {<<"0", "2", "0", "2", "0", "0", "0", "0">>,
              <<"4", "6", "0", "2", "0", "0", "0", "0">>}
RegFiles ==
    {a \o c \o sp \o ip \o fl :
        a \in RegTexts, c \in RegTexts, sp \in RegTexts, ip \in RegTexts, fl \in FlagTexts}

\* ReadRegisters of the stopped thread.
ReadRegistersCall ==
    /\ rcvData' = regData
    /\ gotRegs' = parseRegisterData(regData)
    /\ UNCHANGED <<regData, sentData>>
    /\ UNCHANGED <<infVars, pendingSignal, ctlVars, dwarf, pktVars, funVars, valVars, svcVars, sessVars, connVars, tlsVars, waitVars>>

\* WriteRegisters with the values the last ReadRegisters returned; the debug
\* server stores the data of the G packet.
WriteRegistersCall ==
    /\ rcvData # <<>>
    /\ sentData' = writeRegisterData(regData, gotRegs)
    /\ regData' = sentData'
    /\ UNCHANGED <<rcvData, gotRegs>>
    /\ UNCHANGED <<infVars, pendingSignal, ctlVars, dwarf, pktVars, funVars, valVars, svcVars, sessVars, connVars, tlsVars, waitVars>>

\* WriteRegisters with rip changed, as ReadTLS issues it.
WriteRipCall ==
    /\ rcvData # <<>>
    /\ \E ip \in RegTexts :
        /\ gotRegs' = [gotRegs EXCEPT !.Rip = hexToUint64(ip, TRUE)]
        /\ sentData' = writeRegisterData(regData, gotRegs')
    /\ regData' = sentData'
    /\ rcvData' = <<>>
    /\ UNCHANGED <<infVars, pendingSignal, ctlVars, dwarf, pktVars, funVars, valVars, svcVars, sessVars, connVars, tlsVars, waitVars>>

RegIdle ==
    /\ regData = <<>> /\ rcvData = <<>> /\ sentData = <<>>
    /\ gotRegs = [Rip |-> <<>>, Rsp |-> <<>>, Rcx |-> <<>>]

\* ---------------------------------------------- the client: waiting for a stop
MaxBatches == 3      \* reads that deliver packets or time out in one session

\* What the inferior prints, and its text in an O packet.
OutBytes == {<<104>>, <<105, 10>>}

HexOfByte(b) == <<HexDigits[(b \div 16) + 1], HexDigits[(b % 16) + 1]>>

RECURSIVE HexOf(_)
HexOf(bs) == IF bs = <<>> THEN <<>> ELSE HexOfByte(Head(bs)) \o HexOf(Tail(bs))

NoInfo == [t \in Tasks |-> "none"]
NoPacket == [kind |-> "none", hex |-> <<>>, src |-> <<>>, sig |-> "none",
             threads |-> {}, info |-> NoInfo]

\* O<hex>: output of the inferior.
OPackets == {[NoPacket EXCEPT !.kind = "O", !.hex = HexOf(bs), !.src = bs] : bs \in OutBytes}
\* T<sig>threads:..: a stop; info is what qThreadStopInfo answers per thread.
TPackets ==
    {[NoPacket EXCEPT !.kind = "T", !.sig = sg, !.threads = th, !.info = i] :
        sg \in {"SIGTRAP", "SIGSTOP"}, th \in {{1}, {1, 2}},
        i \in {NoInfo, [NoInfo EXCEPT ![2] = "SIGTRAP"], [t \in Tasks |-> "SIGTRAP"]}}
\* A stop for a bad memory access (EXC_BAD_ACCESS).
BadAccess == [NoPacket EXCEPT !.kind = "T", !.sig = "EXC_BAD_ACCESS", !.threads = {1}]
\* W<status>, X<sig>: the process exited, was terminated.
EndPackets == {[NoPacket EXCEPT !.kind = k] : k \in {"W", "X"}}
Packets == OPackets \cup TPackets \cup {BadAccess} \cup EndPackets

\* One read delivers one packet, or two.
Batches == {<<p>> : p \in Packets} \cup {<<p, q>> : p \in Packets, q \in Packets}

\* hexToByteArray
hexToByteArray(hex) ==
    [i \in 1..(Len(hex) \div 2) |->
        16 * NibbleOf(hex[2 * i - 1]) + NibbleOf(hex[2 * i])]

\* Mutant: the packets after the first stop reply are not looked at.
RECURSIVE processOutputPacketUntilStop(_)
processOutputPacketUntilStop(stopReplies) ==
    IF stopReplies = <<>> THEN [rest |-> <<>>, out |-> <<>>]
    ELSE IF Head(stopReplies).kind # "O"
    THEN [rest |-> stopReplies, out |-> <<>>]
    ELSE LET r == processOutputPacketUntilStop(Tail(stopReplies))
         IN [rest |-> r.rest, out |-> hexToByteArray(Head(stopReplies).hex) \o r.out]

\* processOutputPacket: every O packet of the batch is decoded and written,
\* the other packets are kept in their order.
RECURSIVE processOutputPacket(_)
processOutputPacket(stopReplies) ==
    IF stopReplies = <<>> THEN [rest |-> <<>>, out |-> <<>>]
    ELSE LET r == processOutputPacket(Tail(stopReplies))
             p == Head(stopReplies)
         IN IF p.kind # "O"
            THEN [rest |-> <<p>> \o r.rest, out |-> r.out]
            ELSE [rest |-> r.rest, out |-> hexToByteArray(p.hex) \o r.out]

\* Mutant: every listed thread counts as trapped.
selectAllThreads(threadIDs, info) == threadIDs

\* selectTrappedThreads: the listed threads whose own stop info is SIGTRAP.
selectTrappedThreads(threadIDs, info) == {t \in threadIDs : info[t] = "SIGTRAP"}

\* Mutant: the signal of a stop with trapped threads is not recorded.
handleTPacketForgetful(p) ==
    LET tr == selectTrappedThreads(p.threads, p.info)
    IN IF p.sig = "EXC_BAD_ACCESS"
       THEN [resume |-> FALSE, sig |-> "none", event |-> NoEvent,
             pending |-> pendingSignal, err |-> "bad memory access"]
       ELSE IF tr = {}
       THEN [resume |-> TRUE, sig |-> p.sig, event |-> NoEvent,
             pending |-> pendingSignal, err |-> "nil"]
       ELSE [resume |-> FALSE, sig |-> "none",
             event |-> [type |-> "Trapped", ids |-> tr],
             pending |-> pendingSignal, err |-> "nil"]

\* handleTPacket: a bad memory access is an error; no trapped thread: resume
\* with the stop's signal and wait
\* on; else record the signal as pending unless it is SIGTRAP and return the
\* Trapped event.
handleTPacket(p) ==
    LET tr == selectTrappedThreads(p.threads, p.info)
    IN IF p.sig = "EXC_BAD_ACCESS"
       THEN [resume |-> FALSE, sig |-> "none", event |-> NoEvent,
             pending |-> pendingSignal, err |-> "bad memory access"]
       ELSE IF tr = {}
       THEN [resume |-> TRUE, sig |-> p.sig, event |-> NoEvent,
             pending |-> pendingSignal, err |-> "nil"]
       ELSE [resume |-> FALSE, sig |-> "none",
             event |-> [type |-> "Trapped", ids |-> tr],
             pending |-> IF p.sig # "SIGTRAP" THEN p.sig ELSE "none",
             err |-> "nil"]

\* Mutant: the last reply is the one handled.
handleStopReplyLast(stopReplies) ==
    LET p == stopReplies[Len(stopReplies)]
    IN IF p.kind = "T" THEN handleTPacket(p)
       ELSE [resume |-> FALSE, sig |-> "none", pending |-> pendingSignal,
             err |-> "nil",
             event |-> IF p.kind = "W" THEN [type |-> "Exited", ids |-> {}]
                       ELSE IF p.kind = "X" THEN [type |-> "Terminated", ids |-> {}]
                       ELSE [type |-> "unknown packet type", ids |-> {}]]

\* handleStopReply: the event of the first reply; the others are dropped.
handleStopReply(stopReplies) ==
    LET p == Head(stopReplies)
    IN IF p.kind = "T" THEN handleTPacket(p)
       ELSE [resume |-> FALSE, sig |-> "none", pending |-> pendingSignal,
             err |-> "nil",
             event |-> IF p.kind = "W" THEN [type |-> "Exited", ids |-> {}]
                       ELSE IF p.kind = "X" THEN [type |-> "Terminated", ids |-> {}]
                       ELSE [type |-> "unknown packet type", ids |-> {}]]

RECURSIVE Printed(_)
Printed(batch) ==
    IF batch = <<>> THEN <<>> ELSE Head(batch).src \o Printed(Tail(batch))

NoStep == [thread |-> 0, ret |-> "none"]

\* What StepAndWait returns when its wait() returned ev and err; a continue
\* returns what wait() returned.
StepReturn(ev, err) ==
    IF step.thread = 0 THEN step
    ELSE [step EXCEPT !.ret =
            IF err # "nil" THEN err
            ELSE IF ev.type # "Trapped" THEN "unexpected event"
            ELSE IF ev.ids # {step.thread} THEN "UnspecifiedThreadError"
            ELSE "nil"]

\* The resume a call sends before it waits: vCont;c or vCont;s:<t> without a
\* pending signal, vCont;C<sig> or vCont;S<sig>:<t> with one.
SendResume(t) ==
    /\ sess = "ready"
    /\ wst \in {"idle", "returned"} /\ connOpen /\ waitErr = "nil"
    /\ batches < MaxBatches
    /\ wst' = "waiting"
    /\ resumes' = <<pendingSignal>>
    /\ step' = [thread |-> t, ret |-> "none"]
    /\ written' = <<>> /\ produced' = <<>>
    /\ event' = NoEvent /\ evFrom' = NoPacket
    /\ dropped' = {}
    /\ UNCHANGED <<batches, waitErr, pendingSignal>>
    /\ UNCHANGED <<infVars, ctlVars, dwarf, pktVars, funVars, valVars, svcVars, sessVars, connVars, tlsVars, regVars>>

\* StepAndWait(t) up to its wait(): the step is sent with the pending signal.
StepAndWaitCall(t) ==
    /\ t \in Tasks
    /\ SendResume(t)

\* ContinueAndWait: the continue is sent with the pending signal.
ContinueAndWait ==
    /\ step' = NoStep
    /\ SendResume(0)

\* wait(): one read delivers the batch b; the output packets are written, then
\* the first stop reply, if there is one, is handled.
Wait(b) ==
    /\ wst = "waiting" /\ batches < MaxBatches
    /\ batches' = batches + 1
    /\ LET o == processOutputPacket(b)
       IN /\ written' = written \o o.out
          /\ produced' = produced \o Printed(b)
          /\ dropped' = dropped \cup {o.rest[i].kind : i \in 2..Len(o.rest)}
          /\ IF o.rest = <<>>
             THEN UNCHANGED <<wst, event, evFrom, waitErr, resumes, pendingSignal,
                              connOpen, step>>
             ELSE LET h == handleStopReply(o.rest)
                  IN IF h.resume
                     THEN /\ resumes' = Append(resumes, h.sig)
                          /\ UNCHANGED <<wst, event, evFrom, waitErr,
                                         pendingSignal, connOpen, step>>
                     ELSE /\ wst' = "returned"
                          /\ event' = h.event
                          /\ evFrom' = Head(o.rest)
                          /\ waitErr' = h.err
                          /\ pendingSignal' = h.pending
                          /\ connOpen' = (h.event.type \notin {"Exited", "Terminated"})
                          /\ step' = StepReturn(h.event, h.err)
                          /\ UNCHANGED resumes
    /\ UNCHANGED <<regs, stubMem, currentTLSOffset, tlsRet, tlsLog>>
    /\ UNCHANGED <<infVars, ctlVars, dwarf, pktVars, funVars, valVars, svcVars, sessVars, connVars, regVars>>

\* What qThreadStopInfo answers for a thread: T00 for no stop, else the signal.
StopInfos == [Tasks -> {"T00", "SIGTRAP", "SIGSTOP", "EXC_BAD_ACCESS"}]

Stopped(infos) == {t \in Tasks : infos[t] # "T00"}

\* The T packet qThreadStopInfo answers for thread t; it lists t and the
\* threads th.
StopInfoOf(t, infos, th) ==
    [NoPacket EXCEPT !.kind = "T", !.sig = infos[t], !.threads = th \cup {t},
                     !.info = [u \in Tasks |-> IF infos[u] = "SIGTRAP"
                                               THEN "SIGTRAP" ELSE "none"]]

\* Mutant: the reply of the last stopped thread is taken.
checkStopReplyLast(infos, th) ==
    IF Stopped(infos) = {} THEN NoPacket
    ELSE StopInfoOf(CHOOSE t \in Stopped(infos) : \A u \in Stopped(infos) : u <= t,
                    infos, th)

\* checkStopReply: the threads are asked in their order; the first reply that
\* is not T00 is returned, and nothing when there is none.
checkStopReply(infos, th) ==
    IF Stopped(infos) = {} THEN NoPacket
    ELSE StopInfoOf(CHOOSE t \in Stopped(infos) : \A u \in Stopped(infos) : t <= u,
                    infos, th)

\* wait() when the read times out: the threads' stop infos are asked for; a
\* failing request ends the wait with an error, no stop leaves the client
\* waiting, and a stop is handled as the stop reply of a read.
WaitTimeout(infos, th, fails) ==
    /\ wst = "waiting" /\ batches < MaxBatches
    /\ IF fails
       THEN /\ wst' = "returned"
            /\ waitErr' = "failed to query stop reply"
            /\ step' = StepReturn(NoEvent, "failed to query stop reply")
            /\ batches' = batches + 1
            /\ UNCHANGED <<written, produced, event, evFrom, resumes, dropped,
                           pendingSignal, tlsVars>>
            /\ UNCHANGED <<infVars, ctlVars, dwarf, pktVars, funVars, valVars, svcVars, sessVars,
                           connVars, regVars>>
       ELSE IF checkStopReply(infos, th) = NoPacket
       THEN /\ batches' = batches + 1
            /\ UNCHANGED <<wst, written, produced, event, evFrom, waitErr, resumes,
                           dropped, step, pendingSignal, tlsVars>>
            /\ UNCHANGED <<infVars, ctlVars, dwarf, pktVars, funVars, valVars, svcVars, sessVars,
                           connVars, regVars>>
       ELSE Wait(<<checkStopReply(infos, th)>>)

WaitIdle ==
    /\ wst = "idle" /\ batches = 0
    /\ written = <<>> /\ produced = <<>>
    /\ event = NoEvent /\ evFrom = NoPacket /\ waitErr = "nil"
    /\ resumes = <<>> /\ dropped = {} /\ step = NoStep

\* ---------------------------------------------- the client: the session
\* The requests of initialize(), in their order; the last allocates the memory
\* of the TLS-read stub in the inferior.
InitSteps == <<"setNoAckMode", "qSupported", "qThreadSuffixSupported",
               "collectRegisterMetadata", "qListThreadsInStopReply",
               "allocateMemory">>
\* What can fail before the connection to the debug server exists.
ConnectFailures == {"net.Listen", "debugServerPath", "cmd.Start", "waitConnectOrExit"}
StartOutcomes == ConnectFailures \cup {InitSteps[i] : i \in DOMAIN InitSteps} \cup {"nil"}

\* initialize: the first failing request is returned as it is; with none
\* the stub's memory is allocated.
initialize(failing) ==
    IF failing = "nil" THEN [err |-> "nil", allocated |-> {readTLSFuncAddr}]
    ELSE [err |-> failing, allocated |-> {}]

\* The common course of LaunchProcess and AttachProcess.
StartSession(way, kill, o) ==
    /\ sessLog' = [sessLog EXCEPT !.way = way]
    /\ IF o \in ConnectFailures
       THEN /\ sess' = "ended" /\ endedBy' = way /\ sessErr' = o
            /\ UNCHANGED <<connOpen, killOnDetach, allocated>>
       ELSE LET i == initialize(o)
            IN /\ connOpen' = TRUE
               /\ killOnDetach' = kill
               /\ allocated' = i.allocated
               /\ sessErr' = i.err
               /\ sess' = IF i.err = "nil" THEN "ready" ELSE "ended"
               /\ endedBy' = IF i.err = "nil" THEN "none" ELSE "initialize"
    /\ UNCHANGED <<regs, stubMem, currentTLSOffset, tlsRet, tlsLog>>
    /\ UNCHANGED <<infVars, pendingSignal, ctlVars, dwarf, pktVars, funVars, valVars, svcVars, connVars, regVars, waitVars>>

LaunchProcess ==
    /\ sess = "new"
    /\ \E o \in StartOutcomes : StartSession("launch", TRUE, o)

AttachProcess ==
    /\ sess = "new"
    /\ \E o \in StartOutcomes : StartSession("attach", FALSE, o)

\* How a request of DetachProcess can go: the send fails, the receive fails,
\* or a reply comes.
DetachReplies == {"send error", "receive error", "X09", "OK", "E00"}

\* killProcess: k, and the reply has to begin with X09.
killProcess(r) ==
    IF r \in {"send error", "receive error"} THEN r
    ELSE IF r # "X09" THEN "unexpected reply"
    ELSE "nil"

\* send("D") and receiveAndCheck: the reply has to be OK.
receiveAndCheck(r) ==
    IF r \in {"send error", "receive error"} THEN r
    ELSE IF r # "OK" THEN "the error response is returned"
    ELSE "nil"

\* Mutant: the connection is closed only after a request that succeeded.
DetachProcessLeaky(why, r) ==
    /\ sess = "ready" /\ connOpen /\ wst \in {"idle", "returned"}
    /\ sess' = "ended" /\ endedBy' = why
    /\ sessLog' = [sessLog EXCEPT !.cmd = IF killOnDetach THEN "k" ELSE "D"]
    /\ sessErr' = IF killOnDetach THEN killProcess(r) ELSE receiveAndCheck(r)
    /\ connOpen' = (sessErr' # "nil")
    /\ UNCHANGED <<killOnDetach, allocated>>
    /\ UNCHANGED <<regs, stubMem, currentTLSOffset, tlsRet, tlsLog>>
    /\ UNCHANGED <<infVars, pendingSignal, ctlVars, dwarf, pktVars, funVars, valVars, svcVars, connVars, regVars, waitVars>>

\* DetachProcess: kill (killOnDetach) or detach, then the deferred close of
\* the connection, whatever the request returned. why: the caller detaches
\* at the end of the trace or on an interrupt; r: how the request goes.
DetachProcess(why, r) ==
    /\ sess = "ready" /\ connOpen /\ wst \in {"idle", "returned"}
    /\ sess' = "ended" /\ endedBy' = why
    /\ sessLog' = [sessLog EXCEPT !.cmd = IF killOnDetach THEN "k" ELSE "D"]
    /\ sessErr' = IF killOnDetach THEN killProcess(r) ELSE receiveAndCheck(r)
    /\ connOpen' = FALSE
    /\ UNCHANGED <<killOnDetach, allocated>>
    /\ UNCHANGED <<regs, stubMem, currentTLSOffset, tlsRet, tlsLog>>
    /\ UNCHANGED <<infVars, pendingSignal, ctlVars, dwarf, pktVars, funVars, valVars, svcVars, connVars, regVars, waitVars>>

\* The session is established: what the other parts of the client start from.
SessReady ==
    /\ sess = "ready" /\ endedBy = "none" /\ killOnDetach = TRUE
    /\ allocated = {readTLSFuncAddr} /\ sessErr = "nil"
    /\ sessLog = [way |-> "launch", cmd |-> "none"]

\* ------------------------------------------ the client: waitConnectOrExit
NoReturn == [conn |-> "none", err |-> "none"]

\* Mutant: the received connection is returned unchecked.
ReceivedUnchecked(from, v) ==
    IF from = "waitCh" THEN [conn |-> "nil", err |-> "the command exits immediately"]
    ELSE [conn |-> v, err |-> "nil"]

\* What the select returns for a value received from waitCh or connCh.
Received(from, v) ==
    IF from = "waitCh" THEN [conn |-> "nil", err |-> "the command exits immediately"]
    ELSE IF v = "nil" THEN [conn |-> "nil", err |-> "failed to accept the connection"]
    ELSE [conn |-> v, err |-> "nil"]

\* The accepting helper after a send of it was received: the send of nil is
\* followed by the send of conn.
AfterSend(a) == IF a = "sendNil" THEN "sendConn" ELSE "done"

\* Both helpers are started; the caller goes on to its select.
Spawn ==
    /\ mpc = "init" /\ sess = "new"
    /\ mpc' = "run" /\ wpc' = "waiting" /\ apc' = "accepting"
    /\ UNCHANGED <<accepted, wret, order>>
    /\ UNCHANGED <<infVars, pendingSignal, ctlVars, dwarf, pktVars, funVars, valVars, svcVars, tlsVars, regVars,
                   waitVars, sessVars>>

\* cmd.Wait() returns: the debug server exited. The helper sends on waitCh;
\* a caller parked in the select receives it at once, else the helper blocks.
CmdExits ==
    /\ wpc = "waiting"
    /\ order' = Append(order, "exit")
    /\ IF mpc = "select"
       THEN /\ mpc' = "returned" /\ wret' = Received("waitCh", "nil")
            /\ wpc' = "done"
       ELSE /\ wpc' = "sending"
            /\ UNCHANGED <<mpc, wret>>
    /\ UNCHANGED <<apc, accepted>>
    /\ UNCHANGED <<infVars, pendingSignal, ctlVars, dwarf, pktVars, funVars, valVars, svcVars, tlsVars, regVars,
                   waitVars, sessVars>>

\* listener.Accept() returns, with a connection or with an error; the helper
\* comes to its first send.
Accept(ok) ==
    /\ apc = "accepting"
    /\ accepted' = IF ok THEN "conn" ELSE "nil"
    /\ order' = Append(order, IF ok THEN "accept" ELSE "acceptError")
    /\ LET first == IF ok THEN "sendConn" ELSE "sendNil"
       IN IF mpc = "select"
          THEN /\ mpc' = "returned" /\ wret' = Received("connCh", accepted')
               /\ apc' = AfterSend(first)
          ELSE /\ apc' = first
               /\ UNCHANGED <<mpc, wret>>
    /\ UNCHANGED wpc
    /\ UNCHANGED <<infVars, pendingSignal, ctlVars, dwarf, pktVars, funVars, valVars, svcVars, tlsVars, regVars,
                   waitVars, sessVars>>

\* The caller reaches the select: with no helper sending it parks, else one
\* of the sends that can proceed is chosen.
Select ==
    /\ mpc = "run"
    /\ \/ /\ wpc # "sending" /\ apc \notin {"sendNil", "sendConn"}
          /\ mpc' = "select"
          /\ UNCHANGED <<wpc, apc, wret>>
       \/ /\ wpc = "sending"
          /\ mpc' = "returned" /\ wret' = Received("waitCh", "nil")
          /\ wpc' = "done"
          /\ UNCHANGED apc
       \/ /\ apc \in {"sendNil", "sendConn"}
          /\ mpc' = "returned" /\ wret' = Received("connCh", accepted)
          /\ apc' = AfterSend(apc)
          /\ UNCHANGED wpc
    /\ UNCHANGED <<accepted, order>>
    /\ UNCHANGED <<infVars, pendingSignal, ctlVars, dwarf, pktVars, funVars, valVars, svcVars, tlsVars, regVars,
                   waitVars, sessVars>>

\* LaunchProcess after waitConnectOrExit returned.
LaunchConnected ==
    /\ mpc = "returned" /\ sess = "new"
    /\ \E o \in (IF wret.err # "nil" THEN {"waitConnectOrExit"}
                 ELSE StartOutcomes \ ConnectFailures) :
          StartSession("launch", TRUE, o)

\* AttachProcess after waitConnectOrExit returned.
AttachConnected ==
    /\ mpc = "returned" /\ sess = "new"
    /\ \E o \in (IF wret.err # "nil" THEN {"waitConnectOrExit"}
                 ELSE StartOutcomes \ ConnectFailures) :
          StartSession("attach", FALSE, o)

\* The parts of the client that do not start a session leave the helpers out.
ConnIdle ==
    /\ mpc = "init" /\ wpc = "none" /\ apc = "none"
    /\ accepted = "none" /\ wret = NoReturn /\ order = <<>>

\* ----------------------------------------------------------- the service
MaxAttach == 2       \* controllers one service makes

Controllers == 1..MaxAttach

NoReply == [call |-> "none", err |-> "nil"]
NoSvcLog == [received |-> <<>>,     \* controllers whose result was received
             resetAfter |-> <<>>,   \* controllers reset to nil, in order
             touched |-> {},        \* controllers a trace point was added to
             tornDown |-> {}]       \* of these, while Detach had interrupted them

\* Mutant: Attach does not look at t.controller.
NeverAttached == FALSE

\* if t.controller != nil
AlreadyAttached == controller # 0

\* Tracer.Attach: with a controller set the call is rejected; else a new
\* controller is set and AttachTracee called; when it fails the error is
\* returned as it is, else the MainLoop goroutine is started.
Attach(ok) ==
    /\ mtx = "free"
    /\ IF AlreadyAttached
       THEN /\ reply' = [call |-> "Attach", err |-> "already attached"]
            /\ UNCHANGED <<controller, made, loop>>
       ELSE /\ made < MaxAttach
            /\ made' = made + 1
            /\ controller' = made + 1
            /\ IF ok
               THEN /\ loop' = [loop EXCEPT ![made + 1] = "running"]
                    /\ reply' = [call |-> "Attach", err |-> "nil"]
               ELSE /\ reply' = [call |-> "Attach", err |-> "AttachTracee"]
                    /\ UNCHANGED loop
    /\ UNCHANGED <<mtx, loopErr, intr, rcv, svcLog>>
    /\ UNCHANGED <<infVars, pendingSignal, ctlVars, dwarf, pktVars, funVars, valVars, tlsVars, regVars,
                   waitVars, sessVars, connVars>>

\* Tracer.AddStartTracePoint, Tracer.AddEndTracePoint: nil without a
\* controller, else the controller's call.
AddTracePoint(which) ==
    /\ mtx = "free"
    /\ reply' = [call |-> which, err |-> "nil"]
    /\ svcLog' = IF controller = 0 THEN svcLog
                 ELSE [svcLog EXCEPT
                        !.touched = @ \cup {controller},
                        !.tornDown = @ \cup ({controller} \cap intr)]
    /\ UNCHANGED <<controller, made, mtx, loop, loopErr, intr, rcv>>
    /\ UNCHANGED <<infVars, pendingSignal, ctlVars, dwarf, pktVars, funVars, valVars, tlsVars, regVars,
                   waitVars, sessVars, connVars>>

\* Mutant: Detach returns with the mutex unlocked.
DetachUnlocked ==
    /\ mtx = "free"
    /\ reply' = [call |-> "Detach", err |-> "nil"]
    /\ IF controller = 0
       THEN UNCHANGED <<intr, rcv>>
       ELSE /\ intr' = intr \cup {controller}
            /\ rcv' = "waiting"
    /\ UNCHANGED <<controller, made, mtx, loop, loopErr, svcLog>>
    /\ UNCHANGED <<infVars, pendingSignal, ctlVars, dwarf, pktVars, funVars, valVars, tlsVars, regVars,
                   waitVars, sessVars, connVars>>

\* Tracer.Detach: nil without a controller; else the controller is
\* interrupted and a goroutine left to receive the MainLoop's result, with
\* the mutex still locked.
Detach ==
    /\ mtx = "free"
    /\ reply' = [call |-> "Detach", err |-> "nil"]
    /\ IF controller = 0
       THEN UNCHANGED <<mtx, intr, rcv>>
       ELSE /\ intr' = intr \cup {controller}
            /\ rcv' = "waiting"
            /\ mtx' = "held"
    /\ UNCHANGED <<controller, made, loop, loopErr, svcLog>>
    /\ UNCHANGED <<infVars, pendingSignal, ctlVars, dwarf, pktVars, funVars, valVars, tlsVars, regVars,
                   waitVars, sessVars, connVars>>

\* MainLoop returns in its goroutine, which comes to its send on errCh.
MainLoopReturns(c, e) ==
    /\ loop[c] = "running"
    /\ e = "ErrInterrupted" => c \in intr
    /\ loop' = [loop EXCEPT ![c] = "sending"]
    /\ loopErr' = [loopErr EXCEPT ![c] = e]
    /\ UNCHANGED <<controller, made, mtx, intr, rcv, reply, svcLog>>
    /\ UNCHANGED <<infVars, pendingSignal, ctlVars, dwarf, pktVars, funVars, valVars, tlsVars, regVars,
                   waitVars, sessVars, connVars>>

\* <-t.errCh in the goroutine of Detach meets a send of a MainLoop goroutine.
ReceiveErr(c) ==
    /\ rcv = "waiting" /\ loop[c] = "sending"
    /\ rcv' = "got"
    /\ loop' = [loop EXCEPT ![c] = "done"]
    /\ svcLog' = [svcLog EXCEPT !.received = Append(@, c)]
    /\ UNCHANGED <<controller, made, mtx, loopErr, intr, reply>>
    /\ UNCHANGED <<infVars, pendingSignal, ctlVars, dwarf, pktVars, funVars, valVars, tlsVars, regVars,
                   waitVars, sessVars, connVars>>

\* Mutant: the controller is left set.
ResetControllerSkipped ==
    /\ rcv = "got"
    /\ rcv' = "reset"
    /\ UNCHANGED <<controller, made, mtx, loop, loopErr, intr, reply, svcLog>>
    /\ UNCHANGED <<infVars, pendingSignal, ctlVars, dwarf, pktVars, funVars, valVars, tlsVars, regVars,
                   waitVars, sessVars, connVars>>

\* t.controller = nil
ResetController ==
    /\ rcv = "got"
    /\ rcv' = "reset"
    /\ controller' = 0
    /\ svcLog' = [svcLog EXCEPT !.resetAfter = Append(@, controller)]
    /\ UNCHANGED <<made, mtx, loop, loopErr, intr, reply>>
    /\ UNCHANGED <<infVars, pendingSignal, ctlVars, dwarf, pktVars, funVars, valVars, tlsVars, regVars,
                   waitVars, sessVars, connVars>>

\* The deferred t.mtx.Unlock() of the goroutine of Detach.
Unlock ==
    /\ rcv = "reset"
    /\ rcv' = "none"
    /\ mtx' = "free"
    /\ UNCHANGED <<controller, made, loop, loopErr, intr, reply, svcLog>>
    /\ UNCHANGED <<infVars, pendingSignal, ctlVars, dwarf, pktVars, funVars, valVars, tlsVars, regVars,
                   waitVars, sessVars, connVars>>

SvcIdle ==
    /\ controller = 0 /\ made = 0 /\ mtx = "free"
    /\ loop = [c \in Controllers |-> "none"]
    /\ loopErr = [c \in Controllers |-> "none"]
    /\ intr = {} /\ rcv = "none" /\ reply = NoReply /\ svcLog = NoSvcLog

\* ------------------------------------------------------ the value parser
\* The bytes a buffer is made of; only its lowest two bytes vary, so that
\* every number fits.
Bytes == {0, 1, 255}

IntSizes == {1, 2, 4, 8}

\* The types rendered: the integers, bool, pointers to int8 and to void,
\* string, and slices of int8.
ValTypes ==
    {[kind |-> k, size |-> n] : k \in {"int", "uint"}, n \in IntSizes}
    \cup {[kind |-> "bool", size |-> 1],
          [kind |-> "ptr", size |-> 8], [kind |-> "voidptr", size |-> 8],
          [kind |-> "string", size |-> 16], [kind |-> "slice", size |-> 24]}

\* The buffers of a type: numbers and addresses in their two lowest bytes,
\* lengths (the second word of a string or a slice) 0..2.
Buffers(typ) ==
    IF typ.kind \in {"string", "slice"}
    THEN {[i \in 1..typ.size |-> IF i = 1 THEN a ELSE IF i = 9 THEN l ELSE 0] :
            a \in {0, 1}, l \in 0..2}
    ELSE {[i \in 1..typ.size |-> IF i = 1 THEN a ELSE IF i = 2 THEN b ELSE 0] :
            a \in Bytes, b \in Bytes}

\* binary.LittleEndian.Uint16 / Uint32 / Uint64
RECURSIVE LittleEndian(_)
LittleEndian(val) ==
    IF val = <<>> THEN 0 ELSE Head(val) + 256 * LittleEndian(Tail(val))

\* int8(..), int16(..): the conversions to the signed type; with the two
\* lowest bytes only, an int32 or int64 is not negative.
Signed(v, size) ==
    IF size = 1 /\ v >= 128 THEN v - 256
    ELSE IF size = 2 /\ v >= 32768 THEN v - 65536
    ELSE v

HexStr == <<"0", "1", "2", "3", "4", "5", "6", "7", "8", "9",
            "a", "b", "c", "d", "e", "f">>

\* %x
RECURSIVE HexText(_)
HexText(n) ==
    IF n < 16 THEN HexStr[n + 1] ELSE HexText(n \div 16) \o HexStr[(n % 16) + 1]

\* strconv.Quote, of texts without characters to escape
Quote(t) == "\"" \o t \o "\""

\* string(buff) of n bytes all holding the letter a
RECURSIVE Letters(_)
Letters(n) == IF n = 0 THEN "" ELSE "a" \o Letters(n - 1)

int8Type == [kind |-> "int", size |-> 1]

\* parseValue for the integers and bool, with the String() of the value.
parseScalar(typ, val) ==
    IF typ.kind = "int"
    THEN ToString(Signed(LittleEndian(SubSeq(val, 1, typ.size)), typ.size))
    ELSE IF typ.kind = "uint"
    THEN ToString(LittleEndian(SubSeq(val, 1, typ.size)))
    ELSE IF val[1] = 1 THEN "true" ELSE "false"

\* Mutant: the pointer is followed without the look at its address.
parsePtrUnchecked(typ, val, m) ==
    LET addr == LittleEndian(val)
    IN IF typ.kind = "voidptr"
       THEN [addr |-> addr, pointedVal |-> "nil", reads |-> 0]
       ELSE IF ~m.ok THEN [addr |-> addr, pointedVal |-> "nil", reads |-> 1]
       ELSE [addr |-> addr, pointedVal |-> parseScalar(int8Type, <<m.byte>>),
             reads |-> 1]

\* parseValue, case *dwarf.PtrType: a nil pointer, an unsafe.Pointer and a
\* pointer whose memory cannot be read have no pointed value.
parsePtr(typ, val, m) ==
    LET addr == LittleEndian(val)
    IN IF addr = 0 THEN [addr |-> 0, pointedVal |-> "nil", reads |-> 0]
       ELSE IF typ.kind = "voidptr"
       THEN [addr |-> addr, pointedVal |-> "nil", reads |-> 0]
       ELSE IF ~m.ok THEN [addr |-> addr, pointedVal |-> "nil", reads |-> 1]
       ELSE [addr |-> addr, pointedVal |-> parseScalar(int8Type, <<m.byte>>),
             reads |-> 1]

\* ptrValue.String
ptrString(v) ==
    IF v.pointedVal # "nil" THEN "&" \o v.pointedVal ELSE "0x" \o HexText(v.addr)

\* parseStringValue and stringValue.String
parseStringValue(val, m) ==
    LET len == LittleEndian(SubSeq(val, 9, 16))
    IN IF ~m.ok THEN Quote("") ELSE Quote(Letters(len))

\* strings.Join(vals, ", ") of n elements e
RECURSIVE Joined(_, _)
Joined(e, n) == IF n = 1 THEN e ELSE e \o ", " \o Joined(e, n - 1)

\* parseSliceValue and sliceValue.String: no element gives nil; an element
\* without a pointed value has no String().
parseSliceValue(val, m) ==
    LET length == LittleEndian(SubSeq(val, 9, 16))
        firstElem == parsePtr([kind |-> "ptr", size |-> 8], SubSeq(val, 1, 8), m)
    IN IF length = 0 THEN [text |-> "nil", reads |-> firstElem.reads]
       ELSE IF firstElem.pointedVal = "nil"
       THEN [text |-> "panic", reads |-> firstElem.reads]
       ELSE [text |-> "[]{" \o Joined(firstElem.pointedVal, length) \o "}",
             reads |-> length]

\* parseValue and String() of its value.
parseValue(typ, val, m) ==
    IF typ.kind \in {"int", "uint", "bool"}
    THEN [text |-> parseScalar(typ, val), reads |-> 0]
    ELSE IF typ.kind \in {"ptr", "voidptr"}
    THEN LET v == parsePtr(typ, val, m)
         IN [text |-> ptrString(v), reads |-> v.reads]
    ELSE IF typ.kind = "string"
    THEN [text |-> parseStringValue(val, m), reads |-> 1]
    ELSE parseSliceValue(val, m)

\* One value is parsed and rendered.
Render1 ==
    /\ rendered = ""
    /\ LET v == parseValue(valTyp, valBuf, valMem)
       IN rendered' = v.text /\ valReads' = v.reads
    /\ UNCHANGED <<valTyp, valBuf, valMem>>
    /\ UNCHANGED <<infVars, pendingSignal, ctlVars, dwarf, pktVars, funVars, tlsVars, regVars,
                   waitVars, sessVars, connVars, svcVars>>

ValIdle ==
    /\ valTyp = int8Type /\ valBuf = <<0>>
    /\ valMem = [ok |-> FALSE, byte |-> 0]
    /\ rendered = "" /\ valReads = 0 - 1

\* ------------------------------------------ the client: packets of initialize
MaxRegs == 2         \* registers the debug server describes at most

\* calcChecksum: the sum of the bytes in a uint8.
RECURSIVE calcChecksum(_)
calcChecksum(buff) ==
    IF buff = <<>> THEN 0 ELSE (Head(buff) + calcChecksum(Tail(buff))) % 256

\* strconv.FormatUint(v, 16) of a byte: hexadecimal without leading zeros.
FormatUint(v) == IF v < 16 THEN <<HexDigits[v + 1]>> ELSE HexOfByte(v)

\* A packet $<body>#<cc> as receive() has cut it: the first byte, the body,
\* and the two bytes after the '#'.
Packet(body, cc) == [head |-> "$", body |-> body, cc |-> cc]

\* verifyPacket: the two bytes after '#' are compared with FormatUint of the
\* body's checksum.
verifyPacket(packet) ==
    IF packet.head # "$" THEN "invalid head data"
    ELSE IF packet.cc # FormatUint(calcChecksum(packet.body)) THEN "invalid checksum"
    ELSE "nil"

\* Mutant: the checksum is always computed.
sendChecksummed(command, noAck) ==
    [body |-> command, cc |-> HexOfByte(calcChecksum(command)), awaited |-> ~noAck]

\* send: the packet built for a command, and whether the '+' is waited for.
send(command, noAck) ==
    [body |-> command,
     cc |-> IF noAck THEN <<"0", "0">> ELSE HexOfByte(calcChecksum(command)),
     awaited |-> ~noAck]

\* The requests of initialize() in their order, with the bytes of the command
\* and the way the reply is checked.
Requests ==
    << [name |-> "QStartNoAckMode", bytes |-> <<81, 83, 116, 97, 114, 116, 78, 111, 65, 99, 107, 77, 111, 100, 101>>, check |-> "OK"],
       [name |-> "qSupported", bytes |-> <<113, 83, 117, 112, 112, 111, 114, 116, 101, 100, 58, 115, 119, 98, 114, 101, 97, 107, 43, 59, 104, 119, 98, 114, 101, 97, 107, 43, 59, 110, 111, 45, 114, 101, 115, 117, 109, 101, 100, 43>>, check |-> "any"],
       [name |-> "QThreadSuffixSupported", bytes |-> <<81, 84, 104, 114, 101, 97, 100, 83, 117, 102, 102, 105, 120, 83, 117, 112, 112, 111, 114, 116, 101, 100>>, check |-> "OK"],
       [name |-> "qRegisterInfo", bytes |-> <<113, 82, 101, 103, 105, 115, 116, 101, 114, 73, 110, 102, 111>>, check |-> "reg"],
       [name |-> "QListThreadsInStopReply", bytes |-> <<81, 76, 105, 115, 116, 84, 104, 114, 101, 97, 100, 115, 73, 110, 83, 116, 111, 112, 82, 101, 112, 108, 121>>, check |-> "OK"],
       [name |-> "_M", bytes |-> <<95, 77, 57, 44, 114, 119, 120>>, check |-> "alloc"] >>

\* The command of the request ipc is at: qRegisterInfo ends with the number
\* of the register.
CommandAt(i) ==
    IF Requests[i.req].check = "reg"
    THEN Append(Requests[i.req].bytes, 48 + i.reg)
    ELSE Requests[i.req].bytes

\* Replies of the debug server: OK, the empty reply, E45, a number.
Replies ==
    { [data |-> "OK", bytes |-> <<79, 75>>], [data |-> "", bytes |-> <<>>],
      [data |-> "E45", bytes |-> <<69, 52, 53>>], [data |-> "1000", bytes |-> <<49, 48, 48, 48>>] }

\* The error the request makes of the reply it received.
CheckReply(check, data) ==
    IF check = "OK"
    THEN (IF data = "OK" THEN "nil" ELSE "the error response is returned")
    ELSE IF check = "reg"
    THEN (IF data = "E45" THEN "the end of list" ELSE "nil")
    ELSE IF check = "alloc"
    THEN (IF data \in {"", "E45"} THEN "error response"
          ELSE IF data = "OK" THEN "invalid syntax" ELSE "nil")
    ELSE "nil"

NoSent == [body |-> <<>>, cc |-> <<>>, awaited |-> FALSE]
NoRcvd == [body |-> <<>>, verified |-> FALSE, acked |-> FALSE]

\* A request of initialize() up to the end of its send: the packet is
\* written and, outside no-ack mode, one byte is read that has to be '+'.
InitSend(ack) ==
    /\ ipc.at = "send"
    /\ sent' = send(CommandAt(ipc), noAckMode)
    /\ ipc' = [ipc EXCEPT !.at = IF ~noAckMode /\ ack # "+" THEN "failed" ELSE "receive"]
    /\ UNCHANGED <<noAckMode, rcvd, funVars>>
    /\ UNCHANGED <<infVars, pendingSignal, ctlVars, dwarf, tlsVars, regVars,
                   waitVars, sessVars, connVars, svcVars, valVars>>

\* The request that follows request i after the reply data.
NextRequest(i, err) ==
    IF Requests[i.req].check = "reg" /\ err = "nil"
    THEN [i EXCEPT !.reg = i.reg + 1, !.at = "send"]
    ELSE IF err \notin {"nil", "the end of list"} THEN [i EXCEPT !.at = "failed"]
    ELSE IF i.req = Len(Requests) THEN [i EXCEPT !.at = "done"]
    ELSE [i EXCEPT !.req = i.req + 1, !.at = "send"]

\* The rest of the request: receive() reads the reply, outside no-ack mode
\* verifies it and sends '+'; then the request checks the data, and
\* setNoAckMode enters no-ack mode. good: the checksum of the reply is right.
InitReceive(r, good) ==
    /\ ipc.at = "receive"
    /\ (Requests[ipc.req].check = "reg" /\ ipc.reg + 1 >= MaxRegs) => r.data = "E45"
    /\ LET packet == Packet(r.bytes, IF good THEN HexOfByte(calcChecksum(r.bytes))
                                     ELSE <<"z", "z">>)
           verr == IF noAckMode THEN "nil" ELSE verifyPacket(packet)
           err == IF verr # "nil" THEN verr
                  ELSE CheckReply(Requests[ipc.req].check, r.data)
       IN /\ rcvd' = [body |-> r.bytes, verified |-> ~noAckMode,
                      acked |-> ~noAckMode /\ verr = "nil"]
          /\ noAckMode' = (noAckMode \/ (Requests[ipc.req].name = "QStartNoAckMode"
                                          /\ err = "nil"))
          /\ ipc' = NextRequest(ipc, err)
    /\ UNCHANGED <<sent, funVars>>
    /\ UNCHANGED <<infVars, pendingSignal, ctlVars, dwarf, tlsVars, regVars,
                   waitVars, sessVars, connVars, svcVars, valVars>>

\* Commands the client sends once initialize() has returned.
LaterCommands ==
    {<<118, 67, 111, 110, 116, 59, 99>>, <<113, 102, 84, 104, 114, 101, 97, 100, 73, 110, 102, 111>>,
     <<103, 59, 116, 104, 114, 101, 97, 100, 58, 49, 59>>, <<109, 57, 48, 48, 44, 56>>}

\* send() of a later command.
LaterSend(command, ack) ==
    /\ ipc.at = "done"
    /\ sent' = send(command, noAckMode)
    /\ ipc' = [ipc EXCEPT !.at = IF ~noAckMode /\ ack # "+" THEN "failed" ELSE "reply"]
    /\ UNCHANGED <<noAckMode, rcvd, funVars>>
    /\ UNCHANGED <<infVars, pendingSignal, ctlVars, dwarf, tlsVars, regVars,
                   waitVars, sessVars, connVars, svcVars, valVars>>

\* receive() of the reply to a later command.
LaterReceive(r, good) ==
    /\ ipc.at = "reply"
    /\ LET packet == Packet(r.bytes, IF good THEN HexOfByte(calcChecksum(r.bytes))
                                     ELSE <<"z", "z">>)
           verr == IF noAckMode THEN "nil" ELSE verifyPacket(packet)
       IN /\ rcvd' = [body |-> r.bytes, verified |-> ~noAckMode,
                      acked |-> ~noAckMode /\ verr = "nil"]
          /\ ipc' = [ipc EXCEPT !.at = IF verr = "nil" THEN "done" ELSE "failed"]
    /\ UNCHANGED <<noAckMode, sent, funVars>>
    /\ UNCHANGED <<infVars, pendingSignal, ctlVars, dwarf, tlsVars, regVars,
                   waitVars, sessVars, connVars, svcVars, valVars>>

PktIdle ==
    /\ noAckMode = TRUE /\ ipc = [req |-> Len(Requests), reg |-> 0, at |-> "done"]
    /\ sent = NoSent /\ rcvd = NoRcvd

\* ------------------------------------------ functions applied to one input
NoRes == [err |-> "none"]
FunIdle == fnArg = "none" /\ fnRes = NoRes

\* Packet bodies: every single byte, the empty body, and bodies whose sum
\* passes 255.
Bodies == {<<b>> : b \in 0..255} \cup {<<>>, <<200, 100>>, <<255, 255, 12>>, <<79, 75>>}

\* verifyPacket on the packet send() builds for the body in acknowledgement
\* mode.
VerifySent ==
    /\ fnRes = NoRes
    /\ LET p == send(fnArg, FALSE)
       IN fnRes' = [err |-> verifyPacket(Packet(p.body, p.cc)), cc |-> p.cc, built |-> TRUE]
    /\ UNCHANGED <<fnArg, pktVars>>
    /\ UNCHANGED <<infVars, pendingSignal, ctlVars, dwarf, tlsVars, regVars,
                   waitVars, sessVars, connVars, svcVars, valVars>>

\* verifyPacket on the body followed by two other bytes.
VerifyOther(cc) ==
    /\ fnRes = NoRes
    /\ fnRes' = [err |-> verifyPacket(Packet(fnArg, cc)), cc |-> cc, built |-> FALSE]
    /\ UNCHANGED <<fnArg, pktVars>>
    /\ UNCHANGED <<infVars, pendingSignal, ctlVars, dwarf, tlsVars, regVars,
                   waitVars, sessVars, connVars, svcVars, valVars>>


\* ------------------------------------------ the binary: parameter offsets
dwarfOpCallFrameCFA == 156      \* 0x9c
dwarfOpFbreg == 145             \* 0x91

RECURSIVE Pow2(_)
Pow2(n) == IF n = 0 THEN 1 ELSE 2 * Pow2(n - 1)

\* The loop of decodeSignedLEB128 from index i (counted from 0) with val so
\* far: the low 7 bits of each byte are or-ed in at bit 7*i, where val has
\* no bit set; the loop ends at the first byte without the bit 0x80, and
\* reading past the input panics.
RECURSIVE decodeLoop(_, _, _)
decodeLoop(in, i, val) ==
    IF i >= Len(in) THEN [panic |-> TRUE, i |-> i, val |-> val]
    ELSE LET v == val + (in[i + 1] % 128) * Pow2(7 * i)
         IN IF (in[i + 1] \div 128) % 2 = 0
            THEN [panic |-> FALSE, i |-> i, val |-> v]
            ELSE decodeLoop(in, i + 1, v)

\* Mutant: the sign bit of the last byte is not looked at.
decodeUnsignedLEB128(in) ==
    LET l == decodeLoop(in, 0, 0)
    IN IF l.panic THEN [panic |-> TRUE, val |-> 0]
       ELSE [panic |-> FALSE, val |-> l.val]

\* decodeSignedLEB128: with the bit 0x40 of the last byte set the value is
\* (^0)<<((i+1)*7) + val.
decodeSignedLEB128(in) ==
    LET l == decodeLoop(in, 0, 0)
    IN IF l.panic THEN [panic |-> TRUE, val |-> 0]
       ELSE IF (in[l.i + 1] \div 64) % 2 = 1
       THEN [panic |-> FALSE, val |-> (0 - Pow2((l.i + 1) * 7)) + l.val]
       ELSE [panic |-> FALSE, val |-> l.val]

\* parameterOffset
parameterOffset(loc) ==
    IF loc = <<>> THEN [offset |-> 0, err |-> "location description is empty"]
    ELSE IF Head(loc) = dwarfOpCallFrameCFA THEN [offset |-> 0, err |-> "nil"]
    ELSE IF Head(loc) = dwarfOpFbreg
    THEN LET d == decodeSignedLEB128(Tail(loc))
         IN IF d.panic THEN [offset |-> 0, err |-> "panic"]
            ELSE [offset |-> d.val, err |-> "nil"]
    ELSE [offset |-> 0, err |-> "unknown operation"]

\* offsetWithLocationDesc once the location attribute is found: an empty
\* expression and an error of parameterOffset give exist = false, err = nil.
offsetWithLocationDesc(loc) ==
    IF loc = <<>> THEN [offset |-> 0, exist |-> FALSE, err |-> "nil"]
    ELSE LET r == parameterOffset(loc)
         IN IF r.err = "panic" THEN [offset |-> 0, exist |-> FALSE, err |-> "panic"]
            ELSE [offset |-> r.offset, exist |-> r.err = "nil", err |-> "nil"]

\* Bytes of LEB128 operands: last bytes (bit 0x80 clear) and bytes with a
\* successor.
LastBytes == {0, 1, 16, 63, 64, 127}
MoreBytes == {128, 129, 192, 255}
Leb128s ==
    {<<b>> : b \in LastBytes}
    \cup {<<a, b>> : a \in MoreBytes, b \in LastBytes}
    \cup {<<a, b, c>> : a \in MoreBytes, b \in MoreBytes, c \in LastBytes}
\* Location expressions: empty, call_frame_cfa, fbreg with an operand, with
\* a cut operand, and other operations.
LocExprs ==
    {<<>>, <<dwarfOpCallFrameCFA>>, <<dwarfOpCallFrameCFA, 6>>, <<80>>, <<144, 1>>,
     <<dwarfOpFbreg>>, <<dwarfOpFbreg, 128>>}
    \cup {<<dwarfOpFbreg>> \o e : e \in Leb128s}
    \cup {<<dwarfOpFbreg>> \o e \o <<6>> : e \in Leb128s}

\* The offset of a parameter with the location expression fnArg.
ParameterOffset ==
    /\ fnRes = NoRes
    /\ fnRes' = offsetWithLocationDesc(fnArg)
    /\ UNCHANGED <<fnArg, pktVars>>
    /\ UNCHANGED <<infVars, pendingSignal, ctlVars, dwarf, tlsVars, regVars,
                   waitVars, sessVars, connVars, svcVars, valVars>>

\* ------------------------------------------ the binary: origin chasing
MaxDepth == 5        \* nested calls of walkUpOrigins the stack has room for

\* Debug entries; 0 stands for no entry.
Entries == 1..3
\* A graph of entries: the abstract_origin of each entry (0: the attribute is
\* missing or cannot be read), the entries walkFn accepts, and the entry the
\* walk starts from.
OriginGraphs ==
    [origin : [Entries -> Entries \cup {0}], accepts : SUBSET Entries, start : Entries]

\* findAbstractOrigin
findAbstractOrigin(g, entry) == g.origin[entry]

\* One call of walkUpOrigins on the entry w.at: the walk ends when walkFn
\* accepts the entry and when the entry has no origin, and else calls itself
\* on the origin; the calls nest until the stack is used up.
walkUpOrigins(g, w) ==
    LET seen == Append(w.visited, w.at)
    IN IF w.at \in g.accepts
       THEN [err |-> "nil", at |-> w.at, visited |-> seen]
       ELSE IF findAbstractOrigin(g, w.at) = 0
       THEN [err |-> "failed to find abstract origin", at |-> w.at, visited |-> seen]
       ELSE IF Len(seen) >= MaxDepth
       THEN [err |-> "stack overflow", at |-> w.at, visited |-> seen]
       ELSE [err |-> "none", at |-> findAbstractOrigin(g, w.at), visited |-> seen]

WalkStep ==
    /\ fnRes.err = "none"
    /\ fnRes' = walkUpOrigins(fnArg, fnRes)
    /\ UNCHANGED <<fnArg, pktVars>>
    /\ UNCHANGED <<infVars, pendingSignal, ctlVars, dwarf, tlsVars, regVars,
                   waitVars, sessVars, connVars, svcVars, valVars>>

\* ------------------------------------------ the value parser: nested values
MaxParseLevel == 2   \* the recursion budget parsing starts with, at most

\* Addresses of the inferior: 0 is nil, UnreadableAddr cannot be read.
HeapAddrs == 1..2
UnreadableAddr == Cardinality(HeapAddrs) + 1
\* What is stored at an address: a pointer (of a pointer value, of the field
\* next of a node, of the data word of an interface value, of the array word
\* of a slice) and, for an interface value, the runtime type of what it
\* holds.
Cells == [ptr : 0..UnreadableAddr, rtype : {"int", "*eface", "node"}]
\* Types: P is the pointer type "type P *P"; node is "struct { next *node }";
\* eface is interface{}.
NestedTypes == {"P", "*int", "*node", "node", "eface", "*eface", "[]node"}
Pointee(typ) ==
    IF typ = "P" THEN "P" ELSE IF typ = "*int" THEN "int"
    ELSE IF typ = "*node" THEN "node" ELSE "eface"
IsPtrType(typ) == typ \in {"P", "*int", "*node", "*eface"}
\* A value to parse: its type, its bytes (for a slice also its len word),
\* the memory, the recursion budget. The value is the one stored at the
\* first address.
NestedValues ==
    {[typ |-> t, val |-> m[1], len |-> l, mem |-> m, depth |-> d] :
        t \in NestedTypes \ {"[]node"}, l \in {0},
        m \in [HeapAddrs -> Cells], d \in 0..MaxParseLevel}
    \cup
    {[typ |-> t, val |-> m[1], len |-> l, mem |-> m, depth |-> d] :
        t \in {"[]node"}, l \in 0..1,
        m \in [HeapAddrs -> Cells], d \in 0..MaxParseLevel}

\* Mutant: the struct of the slice is parsed with the budget as it is.
sliceDepthPlain(remainingDepth) == remainingDepth
\* parseSliceValue: "Values are wrapped by slice struct. So +1 here."
sliceDepth(remainingDepth) == remainingDepth + 1

\* parseStructValue: the budget the fields are parsed with.
fieldDepth(remainingDepth) == remainingDepth - 1

\* One call of parseValue on the value w.val of type w.typ with the budget
\* w.depth; the call it makes on what the value refers to, if it makes one,
\* is the next step. The calls nest until the stack is used up. w.levels
\* counts the structs of the program (node) whose fields have been entered
\* on the way.
\*   pointer: nil and an unreadable target end the parse; else the target
\*     is parsed with the same budget;
\*   struct: without budget it is abbreviated; else its field is parsed
\*     with the budget less one;
\*   interface{}: nil data ends the parse; a pointer held is parsed as a
\*     pointer to the data, another value is read and parsed, both with the
\*     same budget;
\*   slice: its struct is parsed with the budget plus one; no element ends
\*     the parse; the array field is a pointer to the first element.
parseValueCall(g, w) ==
    LET nested == w.calls + 1
        end(how) == [err |-> "nil", how |-> how, typ |-> w.typ, val |-> w.val,
                     depth |-> w.depth, calls |-> nested, levels |-> w.levels]
        call(typ, val, depth, levels) ==
            IF nested >= MaxDepth
            THEN [err |-> "stack overflow", how |-> "none", typ |-> w.typ,
                  val |-> w.val, depth |-> w.depth, calls |-> nested,
                  levels |-> w.levels]
            ELSE [err |-> "none", how |-> "none", typ |-> typ, val |-> val,
                  depth |-> depth, calls |-> nested, levels |-> levels]
        ptr(pointee, depth) ==
            IF w.val.ptr = 0 THEN end("nil pointer")
            ELSE IF w.val.ptr = UnreadableAddr THEN end("unread pointer")
            ELSE call(pointee, g.mem[w.val.ptr], depth, w.levels)
    IN IF w.typ = "int" THEN end("int")
       ELSE IF IsPtrType(w.typ) THEN ptr(Pointee(w.typ), w.depth)
       ELSE IF w.typ = "node"
       THEN (IF w.depth <= 0 THEN end("abbreviated")
             ELSE call("*node", w.val, fieldDepth(w.depth), w.levels + 1))
       ELSE IF w.typ = "[]node"
       THEN (IF sliceDepth(w.depth) <= 0 THEN end("panic")
             ELSE IF g.len = 0 THEN end("nil slice")
             ELSE ptr("node", fieldDepth(sliceDepth(w.depth))))
       ELSE \* eface
            IF w.val.ptr = 0 THEN end("nil interface")
            ELSE IF w.val.rtype = "*eface" THEN call("*eface", w.val, w.depth, w.levels)
            ELSE IF w.val.ptr = UnreadableAddr THEN end("unread interface")
            ELSE call(w.val.rtype, g.mem[w.val.ptr], w.depth, w.levels)

ParseStep ==
    /\ fnRes.err = "none"
    /\ fnRes' = parseValueCall(fnArg, fnRes)
    /\ UNCHANGED <<fnArg, pktVars>>
    /\ UNCHANGED <<infVars, pendingSignal, ctlVars, dwarf, tlsVars, regVars,
                   waitVars, sessVars, connVars, svcVars, valVars>>

\* ------------------------------------------------ the value parser: arrays
MaxCount == 10       \* elements of an array, at most
maxContainerItemsToPrint == 8

\* The arrays parsed: [Count]int8 with its bytes; Count -1 is the array
\* without a known length.
ArrayValues ==
    {[count |-> 0 - 1, val |-> <<>>]}
    \cup UNION {{[count |-> n, val |-> v] : v \in [1..n -> {0, 1, 255}]} : n \in 0..2}
    \cup UNION {{[count |-> n, val |-> v] : v \in [1..n -> {0, 255}]} : n \in 3..MaxCount}

\* parseValue, case *dwarf.ArrayType: Count elements, each parsed from its
\* stride of the buffer; an array of unknown length is a void value.
parseArray(a) ==
    IF a.count = 0 - 1 THEN [void |-> TRUE, val |-> <<>>]
    ELSE [void |-> FALSE,
          val |-> [i \in 1..a.count |-> parseScalar(int8Type, <<a.val[i]>>)]]

\* strings.Join(vals, ", ")
RECURSIVE Join(_)
Join(vals) ==
    IF vals = <<>> THEN ""
    ELSE IF Len(vals) = 1 THEN vals[1]
    ELSE vals[1] \o ", " \o Join(Tail(vals))

\* arrayValue.String: the loop collects the texts of the elements up to
\* maxContainerItemsToPrint; the number printed between the brackets is the
\* length of what was collected.
arrayString(v) ==
    LET abbrev == Len(v) > maxContainerItemsToPrint
        vals == IF abbrev THEN SubSeq(v, 1, maxContainerItemsToPrint) ELSE v
    IN [err |-> "nil", n |-> Len(vals), vals |-> vals, abbrev |-> abbrev,
        text |-> "[" \o ToString(Len(vals)) \o "]{" \o Join(vals)
                 \o (IF abbrev THEN ", ...}" ELSE "}")]

\* One array is parsed and printed.
PrintArray ==
    /\ fnRes = NoRes
    /\ LET v == parseArray(fnArg)
       IN fnRes' = IF v.void THEN [err |-> "nil", void |-> TRUE]
                   ELSE arrayString(v.val)
    /\ UNCHANGED <<fnArg, pktVars>>
    /\ UNCHANGED <<infVars, pendingSignal, ctlVars, dwarf, tlsVars, regVars,
                   waitVars, sessVars, connVars, svcVars, valVars>>

\* ------------------------------------------------------------ the controller
StartCandidates == {Entry(1)}
EndCandidates == {Entry(3)}

NoOp == [op |-> "none", task |-> 0, startDepth |-> 0, endDepth |-> 0]

RECURSIVE SetToSeq(_)
SetToSeq(S) ==
    IF S = {} THEN <<>>
    ELSE LET x == CHOOSE y \in S : \A z \in S : y <= z
         IN <<x>> \o SetToSeq(S \ {x})

\* AddStartTracePoint / AddEndTracePoint: the point is recorded as pending and
\* nil is returned, whether or not the address has a breakpoint already.
\* Here the points are added before MainLoop starts.
AddStartTracePoint(a) ==
    /\ cpc = "idle"
    /\ pendingStart' = pendingStart \cup {a}
    /\ UNCHANGED auxVars
    /\ UNCHANGED <<infVars, pendingSignal, cpc, result, interrupted, pendingEnd,
                   startPoints, endPoints, breakpoints, stepOver, frames,
                   inWindow, baseline, out, todo, traceLevel, last>>

AddEndTracePoint(a) ==
    /\ cpc = "idle"
    /\ pendingEnd' = pendingEnd \cup {a}
    /\ UNCHANGED auxVars
    /\ UNCHANGED <<infVars, pendingSignal, cpc, result, interrupted, pendingStart,
                   startPoints, endPoints, breakpoints, stepOver, frames,
                   inWindow, baseline, out, todo, traceLevel, last>>

\* Mutant: a pass empties the pending sets whether or not the write succeeded.
StillPendingNone(P, m) == {}

\* The pending trace points an installation pass leaves pending: those whose
\* address is not mapped yet.
StillPending(P, m) == {a \in P : ~Mapped(m, a)}

\* setPendingTracePoints: install a breakpoint at every pending trace point.
setPendingTracePoints(bps, m) ==
    LET r == InstallAll(bps, m, pendingStart, FALSE)
    IN InstallAll(r.bps, r.mem, pendingEnd, FALSE)

\* Interrupt(): set the flag and send the stop signal to the inferior.  The
\* flag is read at the loop top only, so a call made while a trap is handled
\* is the call made at the loop top after it.
Interrupt ==
    /\ cpc \in {"idle", "loop", "wait"} /\ ~interrupted
    /\ interrupted' = TRUE
    /\ sigq' = TRUE
    /\ UNCHANGED auxVars
    /\ UNCHANGED <<mem, pc, cstack, calls, trapped, proc, maxprocs, missed,
                   pendingSignal, cpc, result, pendingStart, pendingEnd,
                   startPoints, endPoints, breakpoints, stepOver, frames,
                   inWindow, baseline, out, todo, traceLevel, last>>

\* MainLoop step 1: install the pending trace points.
MainLoopStart ==
    /\ cpc = "idle"
    /\ LET r == setPendingTracePoints(breakpoints, mem)
       IN /\ breakpoints' = r.bps
          /\ mem' = r.mem
    /\ pendingStart' = StillPending(pendingStart, mem)
    /\ pendingEnd' = StillPending(pendingEnd, mem)
    /\ startPoints' = startPoints \cup (pendingStart \ pendingStart')
    /\ endPoints' = endPoints \cup (pendingEnd \ pendingEnd')
    /\ cpc' = "loop"
    /\ UNCHANGED auxVars
    /\ UNCHANGED <<pc, cstack, calls, trapped, proc, maxprocs, sigq, missed,
                   pendingSignal, result, interrupted, stepOver, frames,
                   inWindow, baseline, out, todo, traceLevel, last>>

\* MainLoop step 2, flag set: clear all breakpoints, detach, return Interrupted.
InterruptedExit ==
    /\ cpc = "loop" /\ interrupted
    /\ LET r == ClearAll(breakpoints, mem)
       IN /\ breakpoints' = r.bps
          /\ mem' = r.mem
    /\ proc' = "detached"
    /\ result' = "Interrupted"
    /\ cpc' = "done"
    /\ UNCHANGED auxVars
    /\ UNCHANGED <<pc, cstack, calls, trapped, maxprocs, sigq, missed,
                   pendingSignal, interrupted, pendingStart, pendingEnd,
                   startPoints, endPoints, stepOver, frames, inWindow,
                   baseline, out, todo, traceLevel, last>>

\* Mutant: the flag is not read before the continue.
ContinueUnchecked ==
    /\ cpc = "loop"
    /\ proc' = "running"
    /\ trapped' = {}
    /\ cpc' = "wait"
    /\ UNCHANGED auxVars
    /\ UNCHANGED <<mem, pc, cstack, calls, maxprocs, sigq, missed, pendingSignal,
                   result, interrupted, pendingStart, pendingEnd, startPoints,
                   endPoints, breakpoints, stepOver, frames, inWindow,
                   baseline, out, todo, traceLevel, last>>

\* MainLoop step 3: ContinueAndWait sends the continue; every thread resumes.
Continue ==
    /\ cpc = "loop" /\ ~interrupted
    /\ proc' = "running"
    /\ trapped' = {}
    /\ cpc' = "wait"
    /\ UNCHANGED auxVars
    /\ UNCHANGED <<mem, pc, cstack, calls, maxprocs, sigq, missed, pendingSignal,
                   result, interrupted, pendingStart, pendingEnd, startPoints,
                   endPoints, breakpoints, stepOver, frames, inWindow,
                   baseline, out, todo, traceLevel, last>>

\* handleTPacket with no thread reporting SIGTRAP: the client resumes the
\* inferior with the stop's signal and goes on waiting; no event is returned.
ResumeWithSignal ==
    /\ cpc = "wait" /\ proc = "running"
    /\ sigq /\ trapped = {}
    /\ sigq' = FALSE
    /\ UNCHANGED auxVars
    /\ UNCHANGED <<mem, pc, cstack, calls, trapped, proc, maxprocs, missed,
                   pendingSignal, ctlVars>>

\* handleTPacket with trapped threads: the Trapped event is returned, a signal
\* other than SIGTRAP is recorded as pending; the controller installs the
\* pending trace points and takes the trapped tasks in turn.
TrappedEvent ==
    /\ cpc = "wait" /\ proc = "running"
    /\ trapped # {}
    /\ \E sig \in {"SIGTRAP"} \cup (IF sigq THEN {"SIGSTOP"} ELSE {}) :
        /\ pendingSignal' = IF sig # "SIGTRAP" THEN sig ELSE "none"
        /\ sigq' = IF sig = "SIGSTOP" THEN FALSE ELSE sigq
    /\ proc' = "stopped"
    /\ LET r == setPendingTracePoints(breakpoints, mem)
       IN /\ breakpoints' = r.bps
          /\ mem' = r.mem
    /\ pendingStart' = StillPending(pendingStart, mem)
    /\ pendingEnd' = StillPending(pendingEnd, mem)
    /\ startPoints' = startPoints \cup (pendingStart \ pendingStart')
    /\ endPoints' = endPoints \cup (pendingEnd \ pendingEnd')
    /\ todo' = SetToSeq(trapped)
    /\ cpc' = "handle"
    /\ UNCHANGED auxVars
    /\ UNCHANGED <<pc, cstack, calls, trapped, maxprocs, missed, result,
                   interrupted, stepOver, frames, inWindow, baseline, out,
                   traceLevel, last>>

\* Mutant: the end of the inferior is returned as an error.
ExitEventAsError ==
    /\ cpc = "wait" /\ proc \in {"exited", "terminated"}
    /\ result' = "error"
    /\ cpc' = "done"
    /\ UNCHANGED auxVars
    /\ UNCHANGED <<infVars, pendingSignal, interrupted, pendingStart, pendingEnd,
                   startPoints, endPoints, breakpoints, stepOver, frames,
                   inWindow, baseline, out, todo, traceLevel, last>>

\* MainLoop step 3, Exited / Terminated: finish cleanly.
ExitEvent ==
    /\ cpc = "wait" /\ proc \in {"exited", "terminated"}
    /\ result' = "nil"
    /\ cpc' = "done"
    /\ UNCHANGED auxVars
    /\ UNCHANGED <<infVars, pendingSignal, interrupted, pendingStart, pendingEnd,
                   startPoints, endPoints, breakpoints, stepOver, frames,
                   inWindow, baseline, out, todo, traceLevel, last>>

\* ------------------------------------------------------------- handle_trap
\* Depth of a task relative to the outermost start point it entered.
Depth(t) == Len(cstack[t]) - baseline[t]

\* Mutant: the depth cap is off by one.
TraceLevelOffByOne(d) == d >= 1 /\ d <= traceLevel + 1

\* Lines are emitted for depths 1 .. trace_level.
TraceLevelAllows(d) == d >= 1 /\ d <= traceLevel

\* Mutant: any non-empty stack matches.
TopAlwaysMatches(fr, a, d) == fr # <<>>

\* The stack top matches a return trap at address a when it is the frame of
\* the call returning there: same return site and same depth.
TopMatches(fr, a, d) == fr # <<>> /\ Top(fr).ret = a /\ Top(fr).depth = d

Line(k, f, d) == [kind |-> k, func |-> f, depth |-> d]

\* find_function(pc): the function whose entry the address is, when the DWARF
\* of the binary has it.
find_function(a) ==
    IF FuncAt(a) \in dwarf THEN [ok |-> TRUE, name |-> FuncAt(a)]
    ELSE [ok |-> FALSE, name |-> 0]

\* The address, printed where a name is absent.
AddrName(a) == 0 - a

\* Mutant: a lookup miss is an error of handle_trap.
RenderStrict(a) ==
    LET f == find_function(a)
    IN [err |-> ~f.ok, name |-> IF f.ok THEN f.name ELSE AddrName(a)]

\* Rendering of a hit function: a lookup miss downgrades to the placeholder.
Render(a) ==
    LET f == find_function(a)
    IN [err |-> FALSE, name |-> IF f.ok THEN f.name ELSE AddrName(a)]

\* Mutant: the exit line names the function the return site lies in.
ExitNameOfSite(fr, a) == FuncAt(a)

\* The function an exit line names: the one of the popped frame.
ExitName(fr, a) == Top(fr).func

\* A transient breakpoint is cleared once it fired and no frame the controller
\* still holds returns to it.
StillNeeded(a, t, fr) ==
    \/ \E i \in 1..Len(fr) : fr[i].ret = a
    \/ \E u \in Tasks \ {t} : \E i \in 1..Len(frames[u]) : frames[u][i].ret = a

Same(t) ==
    [frames |-> frames[t], inWin |-> inWindow[t], baseline |-> baseline[t],
     out |-> out[t], bps |-> breakpoints, mem |-> mem, last |-> NoOp,
     err |-> FALSE]

\* START trace point: the task enters the trace window; the breakpoints at the
\* function entries are installed so that its calls are observed.
AtStartPoint(t) ==
    IF inWindow[t] THEN Same(t)
    ELSE LET r == InstallAll(breakpoints, mem, EntryAddrs, FALSE)
         IN [Same(t) EXCEPT !.inWin = TRUE, !.baseline = Len(cstack[t]),
                            !.bps = r.bps, !.mem = r.mem]

\* END trace point: the task leaves the trace window.
AtEndPoint(t) == [Same(t) EXCEPT !.inWin = FALSE]

\* Entry of a function: print the entry line, push {func, depth} and install
\* the transient breakpoint at the return site.
AtFunctionEntry(t, a) ==
    LET d == Depth(t)
        ret == RetSite(CallerOf(cstack[t]))
        r == Install(breakpoints, mem, ret, TRUE)
        f == Render(a)
    IN IF inWindow[t] /\ TraceLevelAllows(d)
       THEN IF f.err THEN [Same(t) EXCEPT !.err = TRUE]
            ELSE [Same(t) EXCEPT
                !.frames = Append(frames[t], [func |-> f.name, depth |-> d, ret |-> ret]),
                !.out = Append(out[t], Line("in", f.name, d)),
                !.bps = r.bps, !.mem = r.mem,
                !.last = [op |-> "start", task |-> t, startDepth |-> d, endDepth |-> d]]
       ELSE Same(t)

\* Return site: if the stack top matches, pop it and print the exit line.
AtReturnSite(t, a) ==
    LET d == Depth(t) + 1
        fr == frames[t]
        r == IF StillNeeded(a, t, Front(fr))
             THEN [bps |-> breakpoints, mem |-> mem]
             ELSE Clear(breakpoints, mem, a)
    IN IF TopMatches(fr, a, d)
       THEN [Same(t) EXCEPT
                !.frames = Front(fr),
                !.out = IF inWindow[t]
                        THEN Append(out[t], Line("out", ExitName(fr, a), d))
                        ELSE out[t],
                !.bps = r.bps, !.mem = r.mem,
                !.last = [op |-> "end", task |-> t,
                          startDepth |-> Top(fr).depth, endDepth |-> d]]
       ELSE Same(t)

\* Mutant: end points are not looked at.
BookNoEnd(t, a) ==
    IF a \in startPoints THEN AtStartPoint(t)
    ELSE IF a \in EntryAddrs THEN AtFunctionEntry(t, a)
    ELSE AtReturnSite(t, a)

\* Kind of the trap by address-set membership, and its bookkeeping.
Book(t, a) ==
    IF a \in startPoints THEN AtStartPoint(t)
    ELSE IF a \in endPoints THEN AtEndPoint(t)
    ELSE IF a \in EntryAddrs THEN AtFunctionEntry(t, a)
    ELSE AtReturnSite(t, a)

\* Step-over, part 1: the byte the address holds while the task is stepped.
ClearForStep(bps, m, a) == [m EXCEPT ![a] = SavedByte(bps, m, a)]

\* Mutant: the trap byte is not written again after the step.
ReinstallForgotten(bps, m, a) == m

\* Step-over, part 3: the trap byte is written again.
Reinstall(bps, m, a) == IF HasBreakpoint(bps, a) THEN [m EXCEPT ![a] = "trap"] ELSE m

\* Mutant: one entry shared by all tasks.
SetForAll(f, t, v) == [u \in Tasks |-> v]

\* tasks: map<TaskId, ...> : the entry of task t is replaced, no other is.
SetFor(f, t, v) == [f EXCEPT ![t] = v]

\* handle_trap(t) for the first task of the event still to handle.
HandleTrap ==
    /\ cpc = "handle" /\ todo # <<>>
    /\ LET t == Head(todo)
           a == pc[t] - 1
           ours == HasBreakpoint(breakpoints, a)
           bk == IF ours THEN Book(t, a) ELSE Same(t)
           p == IF ours THEN a ELSE pc[t]          \* PC <- PC-1 when ours
           ms == IF ours THEN ClearForStep(bk.bps, bk.mem, a) ELSE bk.mem
       IN IF bk.err
          THEN \* handle_trap failed before the step: the error ends MainLoop
               /\ cpc' = "done" /\ result' = "error" /\ proc' = "detached"
               /\ UNCHANGED <<mem, pc, cstack, calls, trapped, missed, frames,
                              inWindow, baseline, out, last, breakpoints,
                              stepOver, todo>>
          ELSE
          \E r \in StepResults(t, p, ms, bk.bps) :
            /\ pc' = r.pc /\ cstack' = r.cstack /\ calls' = r.calls
            /\ trapped' = r.trapped
            /\ missed' = missed \cup r.missed
            /\ frames' = SetFor(frames, t, bk.frames)
            /\ inWindow' = SetFor(inWindow, t, bk.inWin)
            /\ baseline' = SetFor(baseline, t, bk.baseline)
            /\ out' = SetFor(out, t, bk.out)
            /\ last' = bk.last
            /\ breakpoints' = bk.bps
            /\ IF r.status = "ok"
               THEN /\ mem' = IF ours THEN Reinstall(bk.bps, ms, a) ELSE ms
                    /\ stepOver' = stepOver
                    /\ proc' = r.proc
                    /\ todo' = Tail(todo)
                    /\ cpc' = IF Tail(todo) = <<>> THEN "loop" ELSE "handle"
                    /\ result' = result
               ELSE \* the step failed: the error ends MainLoop after a detach
                    /\ mem' = ms
                    /\ stepOver' = IF ours /\ HasBreakpoint(bk.bps, a)
                                   THEN stepOver \cup {<<a, t>>} ELSE stepOver
                    /\ proc' = IF r.proc = "stopped" THEN "detached" ELSE r.proc
                    /\ todo' = todo
                    /\ cpc' = "done"
                    /\ result' = "error"
    /\ UNCHANGED auxVars
    /\ UNCHANGED <<maxprocs, sigq, pendingSignal, interrupted, pendingStart,
                   pendingEnd, startPoints, endPoints, traceLevel>>

\* ------------------------------------------------------------ specification
InitWith(m) ==
    /\ mem = m
    /\ pc = [t \in Tasks |-> Entry(1)]
    /\ cstack = [t \in Tasks |-> <<1>>]
    /\ calls = 0
    /\ trapped = {}
    /\ proc = "stopped"
    /\ maxprocs \in {1, 2}
    /\ sigq = FALSE
    /\ missed = {}
    /\ pendingSignal = "none"
    /\ cpc = "idle"
    /\ result = "none"
    /\ interrupted = FALSE
    /\ pendingStart = {} /\ pendingEnd = {}
    /\ startPoints = {} /\ endPoints = {}
    /\ breakpoints = {}
    /\ stepOver = {}
    /\ frames = [t \in Tasks |-> <<>>]
    /\ inWindow = [t \in Tasks |-> FALSE]
    /\ baseline = [t \in Tasks |-> 0]
    /\ out = [t \in Tasks |-> <<>>]
    /\ todo = <<>>
    /\ traceLevel \in TraceLevels
    /\ last = NoOp

\* Every text address is mapped when the controller is created, and the
\* binary has its DWARF.
ClientIdle ==
    /\ TlsIdle /\ RegIdle /\ WaitIdle /\ SessReady /\ ConnIdle /\ SvcIdle /\ ValIdle
    /\ PktIdle /\ FunIdle

Init == InitWith([a \in BpAddrs |-> "orig"]) /\ dwarf = Funcs /\ ClientIdle

Next ==
    \/ \E a \in StartCandidates : AddStartTracePoint(a)
    \/ \E a \in EndCandidates : AddEndTracePoint(a)
    \/ Interrupt
    \/ MainLoopStart
    \/ InterruptedExit
    \/ Continue
    \/ \E t \in Tasks : InferiorRun(t)
    \/ ResumeWithSignal
    \/ TrappedEvent
    \/ ExitEvent
    \/ HandleTrap

Spec == Init /\ [][Next]_vars

\* The same controller with trace points that are also added between two
\* iterations of the loop, for an inferior on one OS thread that is not
\* interrupted.
ReAddStartTracePoint(a) ==
    /\ cpc = "loop"
    /\ pendingStart' = pendingStart \cup {a}
    /\ UNCHANGED auxVars
    /\ UNCHANGED <<infVars, pendingSignal, cpc, result, interrupted, pendingEnd,
                   startPoints, endPoints, breakpoints, stepOver, frames,
                   inWindow, baseline, out, todo, traceLevel, last>>

ReAddEndTracePoint(a) ==
    /\ cpc = "loop"
    /\ pendingEnd' = pendingEnd \cup {a}
    /\ UNCHANGED auxVars
    /\ UNCHANGED <<infVars, pendingSignal, cpc, result, interrupted, pendingStart,
                   startPoints, endPoints, breakpoints, stepOver, frames,
                   inWindow, baseline, out, todo, traceLevel, last>>

InitTP == Init /\ maxprocs = 1

NextTP ==
    \/ \E a \in StartCandidates : AddStartTracePoint(a)
    \/ \E a \in EndCandidates : AddEndTracePoint(a)
    \/ \E a \in StartCandidates : ReAddStartTracePoint(a)
    \/ \E a \in EndCandidates : ReAddEndTracePoint(a)
    \/ MainLoopStart
    \/ Continue
    \/ \E t \in Tasks : InferiorRun(t)
    \/ TrappedEvent
    \/ ExitEvent
    \/ HandleTrap

SpecTP == InitTP /\ [][NextTP]_vars

\* The same controller attached to a freshly launched inferior: the text of
\* the late function is mapped by the loader while the inferior runs.
LateAddrs == {Entry(3)}

MapText(a) ==
    /\ cpc = "wait" /\ proc = "running"
    /\ ~Mapped(mem, a)
    /\ mem' = [mem EXCEPT ![a] = "orig"]
    /\ UNCHANGED auxVars
    /\ UNCHANGED <<pc, cstack, calls, trapped, proc, maxprocs, sigq, missed,
                   pendingSignal, ctlVars>>

InitMap ==
    /\ InitWith([a \in BpAddrs |-> IF a \in LateAddrs THEN "unmapped" ELSE "orig"])
    /\ maxprocs = 1
    /\ dwarf = Funcs
    /\ ClientIdle

NextMap ==
    \/ \E a \in StartCandidates : AddStartTracePoint(a)
    \/ \E a \in EndCandidates : AddEndTracePoint(a)
    \/ \E a \in EndCandidates : ReAddEndTracePoint(a)
    \/ MainLoopStart
    \/ Continue
    \/ \E t \in Tasks : InferiorRun(t)
    \/ \E a \in LateAddrs : MapText(a)
    \/ TrappedEvent
    \/ ExitEvent
    \/ HandleTrap

SpecMap == InitMap /\ [][NextMap]_vars

\* MainLoop is a running goroutine: once ContinueAndWait has the exit event to
\* return, MainLoop goes on and returns.
\* The same controller on a binary whose DWARF is stripped, or lacks all
\* functions but one.
StrippedDwarfs == {{}, {2}}

InitND ==
    /\ InitWith([a \in BpAddrs |-> "orig"])
    /\ maxprocs = 1
    /\ dwarf \in StrippedDwarfs
    /\ ClientIdle

SpecND == InitND /\ [][Next]_vars

\* The client reading thread-local words of the threads of a stopped inferior.
InitTLS ==
    /\ InitWith([a \in BpAddrs |-> "orig"]) /\ maxprocs = 1 /\ traceLevel = 1
    /\ dwarf = Funcs
    /\ regs = [t \in Tasks |-> [rip |-> Body(t), rsp |-> 64 + t, rcx |-> 7, rax |-> 3]]
    /\ stubMem = NotWritten
    /\ currentTLSOffset = 0
    /\ connOpen = TRUE
    /\ tlsRet = TlsReturn(0, "nil", {})
    /\ tlsLog = NoLog
    /\ RegIdle /\ WaitIdle /\ SessReady /\ ConnIdle /\ SvcIdle /\ ValIdle
    /\ PktIdle /\ FunIdle

NextTLS == \E t \in Tasks : \E off \in TlsOffsets : ReadTLS(t, off)

SpecTLS == InitTLS /\ [][NextTLS]_vars

\* The client reading and writing the registers of a stopped thread.
InitRegs ==
    /\ InitWith([a \in BpAddrs |-> "orig"]) /\ maxprocs = 1 /\ traceLevel = 1
    /\ dwarf = Funcs
    /\ TlsIdle
    /\ regData \in RegFiles
    /\ rcvData = <<>> /\ sentData = <<>>
    /\ gotRegs = [Rip |-> <<>>, Rsp |-> <<>>, Rcx |-> <<>>]
    /\ WaitIdle /\ SessReady /\ ConnIdle /\ SvcIdle /\ ValIdle
    /\ PktIdle /\ FunIdle

NextRegs == ReadRegistersCall \/ WriteRegistersCall \/ WriteRipCall

SpecRegs == InitRegs /\ [][NextRegs]_vars

\* The client resuming the inferior and waiting for its stops.
InitWait ==
    /\ InitWith([a \in BpAddrs |-> "orig"]) /\ maxprocs = 1 /\ traceLevel = 1
    /\ dwarf = Funcs
    /\ ClientIdle

NextWait ==
    \/ ContinueAndWait
    \/ \E b \in Batches : Wait(b)
    \/ \E infos \in StopInfos, th \in {{1}, {1, 2}}, fails \in BOOLEAN :
          WaitTimeout(infos, th, fails)

SpecWait == InitWait /\ [][NextWait]_vars

\* The client continuing and stepping the inferior; a read delivers one
\* packet, or two stop replies.
StepBatches ==
    {<<p>> : p \in Packets} \cup
    {<<p, q>> : p \in {q \in TPackets : q.threads = {1, 2} /\ q.info[1] = "none"},
                q \in {q \in TPackets : q.threads = {1} /\ q.info = NoInfo}}

NextStep ==
    \/ ContinueAndWait
    \/ \E t \in Tasks : StepAndWaitCall(t)
    \/ \E b \in StepBatches : Wait(b)
    \/ \E infos \in StopInfos, th \in {{1}, {1, 2}}, fails \in BOOLEAN :
          WaitTimeout(infos, th, fails)

SpecStep == InitWait /\ [][NextStep]_vars

\* A session of the client from its start to its end.
InitSess ==
    /\ InitWith([a \in BpAddrs |-> "orig"]) /\ maxprocs = 1 /\ traceLevel = 1
    /\ dwarf = Funcs
    /\ regs = [t \in Tasks |-> [rip |-> Body(1), rsp |-> 0, rcx |-> 0, rax |-> 0]]
    /\ stubMem = NotWritten /\ currentTLSOffset = 0
    /\ tlsRet = TlsReturn(0, "nil", {}) /\ tlsLog = NoLog
    /\ connOpen = FALSE
    /\ RegIdle /\ WaitIdle
    /\ sess = "new" /\ endedBy = "none" /\ killOnDetach = FALSE
    /\ allocated = {} /\ sessErr = "nil"
    /\ sessLog = [way |-> "none", cmd |-> "none"]
    /\ ConnIdle /\ SvcIdle /\ ValIdle
    /\ PktIdle /\ FunIdle

\* initialize() from its first request on.
InitPkt ==
    /\ InitWith([a \in BpAddrs |-> "orig"]) /\ maxprocs = 1 /\ traceLevel = 1
    /\ dwarf = Funcs
    /\ TlsIdle /\ RegIdle /\ WaitIdle /\ SessReady /\ ConnIdle /\ SvcIdle /\ ValIdle
    /\ FunIdle
    /\ noAckMode = FALSE /\ ipc = [req |-> 1, reg |-> 0, at |-> "send"]
    /\ sent = NoSent /\ rcvd = NoRcvd

NextPkt ==
    \/ \E ack \in {"+", "-"} : InitSend(ack)
    \/ \E r \in Replies, good \in BOOLEAN : InitReceive(r, good)
    \/ \E c \in LaterCommands, ack \in {"+", "-"} : LaterSend(c, ack)
    \/ \E r \in Replies, good \in BOOLEAN : LaterReceive(r, good)

SpecPkt == InitPkt /\ [][NextPkt]_vars

\* verifyPacket on every body.
InitVerify ==
    /\ InitWith([a \in BpAddrs |-> "orig"]) /\ maxprocs = 1 /\ traceLevel = 1
    /\ dwarf = Funcs
    /\ TlsIdle /\ RegIdle /\ WaitIdle /\ SessReady /\ ConnIdle /\ SvcIdle /\ ValIdle
    /\ PktIdle
    /\ fnArg \in Bodies /\ fnRes = NoRes

NextVerify ==
    \/ VerifySent
    \/ \E cc \in {<<"0", "0">>, <<"0", "a">>, <<"9", "a">>, <<"f", "f">>} : VerifyOther(cc)

SpecVerify == InitVerify /\ [][NextVerify]_vars

\* The parameter offset of every location expression.
InitLoc ==
    /\ InitWith([a \in BpAddrs |-> "orig"]) /\ maxprocs = 1 /\ traceLevel = 1
    /\ dwarf = Funcs
    /\ TlsIdle /\ RegIdle /\ WaitIdle /\ SessReady /\ ConnIdle /\ SvcIdle /\ ValIdle
    /\ PktIdle
    /\ fnArg \in LocExprs /\ fnRes = NoRes

SpecLoc == InitLoc /\ [][ParameterOffset]_vars

\* Origin chasing on every graph of three entries.
InitWalk ==
    /\ InitWith([a \in BpAddrs |-> "orig"]) /\ maxprocs = 1 /\ traceLevel = 1
    /\ dwarf = Funcs
    /\ TlsIdle /\ RegIdle /\ WaitIdle /\ SessReady /\ ConnIdle /\ SvcIdle /\ ValIdle
    /\ PktIdle
    /\ fnArg \in OriginGraphs
    /\ fnRes = [err |-> "none", at |-> fnArg.start, visited |-> <<>>]

SpecWalk == InitWalk /\ [][WalkStep]_vars

\* The value parser on arrays.
InitArray ==
    /\ InitWith([a \in BpAddrs |-> "orig"]) /\ maxprocs = 1 /\ traceLevel = 1
    /\ dwarf = Funcs
    /\ TlsIdle /\ RegIdle /\ WaitIdle /\ SessReady /\ ConnIdle /\ SvcIdle /\ ValIdle
    /\ PktIdle
    /\ fnArg \in ArrayValues
    /\ fnRes = NoRes

SpecArray == InitArray /\ [][PrintArray]_vars

\* The value parser on values that refer to other values.
InitNested ==
    /\ InitWith([a \in BpAddrs |-> "orig"]) /\ maxprocs = 1 /\ traceLevel = 1
    /\ dwarf = Funcs
    /\ TlsIdle /\ RegIdle /\ WaitIdle /\ SessReady /\ ConnIdle /\ SvcIdle /\ ValIdle
    /\ PktIdle
    /\ fnArg \in NestedValues
    /\ fnRes = [err |-> "none", how |-> "none", typ |-> fnArg.typ, val |-> fnArg.val,
                depth |-> fnArg.depth, calls |-> 0, levels |-> 0]

SpecNested == InitNested /\ [][ParseStep]_vars

\* The value parser on every type and buffer.
InitVal ==
    /\ InitWith([a \in BpAddrs |-> "orig"]) /\ maxprocs = 1 /\ traceLevel = 1
    /\ dwarf = Funcs
    /\ TlsIdle /\ RegIdle /\ WaitIdle /\ SessReady /\ ConnIdle /\ SvcIdle
    /\ PktIdle /\ FunIdle
    /\ valTyp \in ValTypes
    /\ valBuf \in Buffers(valTyp)
    /\ valMem \in [ok : BOOLEAN, byte : Bytes]
    /\ rendered = "" /\ valReads = 0 - 1

SpecVal == InitVal /\ [][Render1]_vars

\* The service with the calls of its one client.
InitSvc ==
    /\ InitWith([a \in BpAddrs |-> "orig"]) /\ maxprocs = 1 /\ traceLevel = 1
    /\ dwarf = Funcs
    /\ ClientIdle

NextSvc ==
    \/ \E ok \in BOOLEAN : Attach(ok)
    \/ \E which \in {"AddStartTracePoint", "AddEndTracePoint"} : AddTracePoint(which)
    \/ Detach
    \/ \E c \in Controllers, e \in {"nil", "error", "ErrInterrupted"} :
          MainLoopReturns(c, e)
    \/ \E c \in Controllers : ReceiveErr(c)
    \/ ResetController
    \/ Unlock

SpecSvc == InitSvc /\ [][NextSvc]_vars

\* A launch or an attach with its two helpers, and the session it starts.
NextConn ==
    \/ Spawn
    \/ CmdExits
    \/ \E ok \in BOOLEAN : Accept(ok)
    \/ Select
    \/ LaunchConnected
    \/ AttachConnected
    \/ ContinueAndWait
    \/ \E infos \in StopInfos, th \in {{1}, {1, 2}}, fails \in BOOLEAN :
          WaitTimeout(infos, th, fails)
    \/ \E why \in {"detach", "interrupt"}, r \in DetachReplies : DetachProcess(why, r)

SpecConn == InitSess /\ [][NextConn]_vars

NextSess ==
    \/ LaunchProcess
    \/ AttachProcess
    \/ ContinueAndWait
    \/ \E b \in StepBatches : Wait(b)
    \/ \E why \in {"detach", "interrupt"}, r \in DetachReplies : DetachProcess(why, r)

SpecSess == InitSess /\ [][NextSess]_vars

SpecExit == InitTP /\ [][Next]_vars /\ WF_vars(ExitEvent)

\* ------------------------------------------------------------------ claims
Steppers(a) == {t \in Tasks : <<a, t>> \in stepOver}

\* C1: whenever handle_trap has returned, every breakpoint address with no
\* task in its step-over window holds the trap byte, and every breakpoint
\* address holding its original byte has exactly one task in its window.
C1_ArmedOrOneStepper ==
    \A b \in breakpoints :
        /\ Steppers(b.addr) = {} => mem[b.addr] = "trap"
        /\ mem[b.addr] = "orig" => Cardinality(Steppers(b.addr)) = 1

\* A task was stepped over a breakpoint, its line is out, and handle_trap
\* has returned with the table armed.
C1_Witness ==
    /\ cpc = "loop" /\ breakpoints # {}
    /\ \E t \in Tasks : out[t] # <<>> /\ pc[t] - 1 \notin BpAddrs

RECURSIVE OpenAfter(_, _)
OpenAfter(lines, open) ==
    IF lines = <<>> THEN open
    ELSE LET l == Head(lines)
         IN IF l.kind = "in" THEN OpenAfter(Tail(lines), Append(open, l.func))
            ELSE IF open # <<>> /\ Top(open) = l.func
                 THEN OpenAfter(Tail(lines), Front(open))
                 ELSE <<-1>>

EntryLines ==
    UNION {{<<t, i>> : i \in {j \in 1..Len(out[t]) : out[t][j].kind = "in"}} : t \in Tasks}

C4_DepthCap ==
    [][/\ \A t \in Tasks : \A i \in 1..Len(out'[t]) : out'[t][i].depth <= traceLevel
       /\ \A t \in Tasks :
            (/\ cpc = "handle" /\ t = Head(todo)
             /\ HasBreakpoint(breakpoints, pc[t] - 1)
             /\ pc[t] - 1 \in EntryAddrs \ (startPoints \cup endPoints)
             /\ inWindow[t])
            => ((Depth(t) >= 1 /\ Depth(t) <= traceLevel) <=> out'[t] # out[t])]_vars

\* With trace_level 1 a task made a call from inside a printed function: that
\* call gave no line, and the exit line of the printed function came after it.
C4_Witness ==
    \E t \in Tasks :
        /\ traceLevel = 1 /\ endPoints = {} /\ calls = 2
        /\ \A u \in Tasks \ {t} : pc[u] = Entry(1)
        /\ cstack[t] = <<1>> /\ pc[t] = Body(1)
        /\ Len(out[t]) = 2 /\ Top(out[t]).kind = "out"

C7_CleanAtDetach ==
    result = "Interrupted" =>
        (breakpoints = {} /\ \A a \in BpAddrs : mem[a] = "orig")

\* MainLoop was interrupted after breakpoints had been installed and hit.
C7_Witness ==
    /\ result = "Interrupted" /\ proc = "detached"
    /\ \E t \in Tasks : inWindow[t] /\ frames[t] # <<>>

\* C8 as stated: no task executes through an installed breakpoint address
\* unobserved, in any interleaving.
C8_Original == missed = {}

\* C8 amended: so it is when the inferior runs on one OS thread.
C8_OneThreadNothingMissed == maxprocs = 1 => missed = {}

\* On one OS thread both tasks arrived at the start point and were stepped
\* over it one after the other.
C8_Witness ==
    /\ maxprocs = 1
    /\ \A t \in Tasks : inWindow[t] /\ pc[t] - 1 \notin BpAddrs

\* C9: handling a trap of one task changes the call stack, window and depth
\* baseline of that task only, and lines are appended to a task's output one
\* at a time, by the handling of that task's own trap.
C9_OnlyHandledTask ==
    [][\A u \in Tasks :
        /\ (frames'[u] # frames[u] \/ baseline'[u] # baseline[u]
                \/ inWindow'[u] # inWindow[u] \/ out'[u] # out[u])
            => (cpc = "handle" /\ u = Head(todo))
        /\ out'[u] # out[u] =>
            (/\ Len(out'[u]) = Len(out[u]) + 1
             /\ SubSeq(out'[u], 1, Len(out[u])) = out[u]
             /\ Top(out'[u]).kind = "in" => Entry(Top(out'[u]).func) = pc[u] - 1
             /\ Top(out'[u]).kind = "out" => pc[u] - 1 \in RetAddrs)]_vars

\* One stop event lists two trapped tasks while a task has a call stack.
C9_Witness ==
    /\ cpc = "handle" /\ Len(todo) = 2
    /\ \E t \in Tasks : frames[t] # <<>>

\* C10: a line is emitted only for a task inside its trace window, and never
\* for the function at a start or an end trace point.
C10_OnlyInsideWindow ==
    [][\A t \in Tasks : out'[t] # out[t] =>
        (/\ inWindow[t] /\ inWindow'[t]
         /\ Entry(Top(out'[t]).func) \notin startPoints \cup endPoints)]_vars

\* A task printed lines inside its window, hit the end trace point and runs
\* the function located there.
C10_Witness ==
    \E t \in Tasks :
        /\ ~inWindow[t] /\ out[t] # <<>>
        /\ Top(cstack[t]) = 3 /\ pc[t] = Body(3)

\* C11: a pending trace point is never lost: it stays pending or becomes a
\* trace point; after each installation pass (MainLoop step 1, and every stop)
\* a pending point whose address is mapped has a breakpoint in the table and
\* one whose address is not mapped yet is still pending.
InstallationPass ==
    \/ cpc = "idle" /\ cpc' = "loop"
    \/ cpc = "wait" /\ cpc' = "handle"

C11_PendingKept ==
    [][/\ pendingStart \subseteq pendingStart' \cup startPoints'
       /\ pendingEnd \subseteq pendingEnd' \cup endPoints'
       /\ InstallationPass =>
            /\ \A a \in pendingStart \cup pendingEnd :
                  Mapped(mem, a) => HasBreakpoint(breakpoints', a)
            /\ \A a \in pendingStart : ~Mapped(mem, a) => a \in pendingStart'
            /\ \A a \in pendingEnd : ~Mapped(mem, a) => a \in pendingEnd']_vars

\* A point that stayed pending over one pass was installed by a later one.
C11_Witness ==
    /\ cpc = "handle"
    /\ Entry(3) \in endPoints /\ HasBreakpoint(breakpoints, Entry(3))
    /\ Entry(1) \in startPoints
    /\ pendingEnd = {}

\* C12: when ContinueAndWait reports that the inferior exited or was
\* terminated, MainLoop returns nil; once MainLoop has returned it handles no
\* further event; and an inferior that has ended leads to MainLoop returning.
Ended == proc \in {"exited", "terminated"}

C12_ExitEndsLoop ==
    /\ [][(cpc = "wait" /\ Ended /\ cpc' # "wait")
            => (cpc' = "done" /\ result' = "nil")]_vars
    /\ [][cpc = "done" => UNCHANGED <<ctlVars, pendingSignal, mem, pc>>]_vars
    /\ (Ended ~> cpc = "done")

C12_Witness == cpc = "done" /\ result = "nil" /\ proc = "exited" /\ out[1] # <<>>

\* C13: a DWARF lookup miss for a hit breakpoint never aborts MainLoop: the
\* trap of a function the DWARF does not resolve is stepped over with the
\* breakpoint armed again and the loop goes on; MainLoop returns an error only
\* when the inferior ended during a single step, and nil when ContinueAndWait
\* reports the exit.
MissAt(t) ==
    /\ pc[t] - 1 \in EntryAddrs \ (startPoints \cup endPoints)
    /\ HasBreakpoint(breakpoints, pc[t] - 1)
    /\ ~find_function(pc[t] - 1).ok
    /\ inWindow[t] /\ TraceLevelAllows(Depth(t))

C13_MissIsLocal ==
    /\ [](result = "error" => Ended)
    /\ [][(cpc = "handle" /\ todo # <<>> /\ MissAt(Head(todo)))
            => /\ cpc' \in {"loop", "handle"}
               /\ pc'[Head(todo)] = AfterInstr(pc[Head(todo)] - 1)
               /\ mem'[pc[Head(todo)] - 1] = "trap"
               /\ out'[Head(todo)] =
                     Append(out[Head(todo)],
                            Line("in", AddrName(pc[Head(todo)] - 1), Depth(Head(todo))))]_vars
    /\ [][(cpc = "wait" /\ Ended /\ cpc' # "wait") => result' = "nil"]_vars

C13_Witness ==
    /\ cpc = "done" /\ result = "nil" /\ proc = "exited"
    /\ \E t \in Tasks : \E i \in 1..Len(out[t]) : out[t][i].func < 0

\* C14: StepAndWait(T) returns a Trapped event only when the trapped threads
\* of the step are exactly {T}; for any other trapped set it returns
\* UnspecifiedThreadError with those thread ids, and ReadTLS returns that
\* error and no TLS value.
C14_OnlyTheSteppedThread ==
    tlsLog.stepped =>
        /\ tlsLog.step.event.type = "Trapped" => tlsLog.ev.ids = {tlsLog.task}
        /\ (tlsLog.ev.type = "Trapped" /\ tlsLog.ev.ids # {tlsLog.task}) =>
              /\ tlsLog.step.err = "UnspecifiedThreadError"
              /\ tlsLog.step.ids = tlsLog.ev.ids
              /\ tlsRet = TlsReturn(0, "UnspecifiedThreadError", tlsLog.ev.ids)

C14_Witness ==
    /\ tlsLog.stepped /\ tlsLog.task = 1
    /\ tlsLog.ev = [type |-> "Trapped", ids |-> {1, 2}]
    /\ tlsRet.err = "UnspecifiedThreadError" /\ tlsRet.ids = {1, 2}

\* C15: StepAndWait hands back the event the step produced, also an Exited or
\* Terminated event, and does not turn it into an error.
C15_EventHandedBack ==
    (tlsLog.stepped /\ tlsLog.ev.type \in {"Exited", "Terminated"}) =>
        (tlsLog.step.event = tlsLog.ev /\ tlsLog.step.err = "nil")

\* C16 as stated: after every ReadTLS that took the register snapshot, the
\* last register write issued for the thread is the snapshot and the thread's
\* rip, rsp and rcx are those of the snapshot.
C16_Original ==
    (tlsLog.snapped /\ connOpen) =>
        /\ tlsLog.wrote => tlsLog.lastWrite = tlsLog.snap
        /\ Registers(regs[tlsLog.task]) = tlsLog.snap

\* C16: on every return of ReadTLS after the snapshot, whether the step
\* succeeded or failed, the last register request of the client is
\* WriteRegisters with the snapshot; when that request succeeds the last
\* write is the snapshot and rip, rsp and rcx are those before the call.
C16_RestoreAlwaysCalled ==
    tlsLog.snapped =>
        /\ tlsLog.restoreCalled /\ tlsLog.lastCall = tlsLog.snap
        /\ tlsLog.restored =>
              /\ tlsLog.lastWrite = tlsLog.snap
              /\ Registers(regs[tlsLog.task]) = tlsLog.snap

C16_Witness ==
    /\ tlsLog.snapped /\ tlsLog.stepped /\ tlsLog.step.err = "UnspecifiedThreadError"
    /\ tlsLog.task \in tlsLog.ev.ids
    /\ tlsLog.restored
    /\ Registers(regs[tlsLog.task]) = tlsLog.snap

\* C17: ReadRegisters followed by WriteRegisters with the values just read
\* sends back exactly the register data that was received: no register, rip,
\* rsp and rcx included, changes.
C17_RoundTrip ==
    (rcvData # <<>> /\ sentData # <<>>) => sentData = rcvData

\* A round trip of a register file whose rip, rsp and rcx are not zero.
C17_Witness ==
    /\ rcvData # <<>> /\ sentData = rcvData
    /\ gotRegs.Rip # <<>> /\ gotRegs.Rsp # <<>> /\ Len(gotRegs.Rcx) = HexWidth
    /\ gotRegs.Rip # gotRegs.Rsp

\* C18: every output packet read while waiting for a stop is decoded and
\* written to the output writer in arrival order, no later than the wait's
\* event is returned; the returned event never comes from an output packet;
\* a batch holding only output packets leaves the client waiting.
OnlyOutput == {b \in Batches : \A i \in 1..Len(b) : b[i].kind = "O"}
C18_OutputDrained ==
    /\ [](written = produced)
    /\ []((wst = "returned" /\ waitErr = "nil") => evFrom.kind \in {"T", "W", "X"})
    /\ [][\A b \in OnlyOutput : Wait(b) => (wst' = "waiting" /\ event' = NoEvent)]_vars
C18_Witness ==
    /\ wst = "returned" /\ event.type = "Trapped"
    /\ batches = 2 /\ written = <<104, 105, 10>>

\* C19 as stated: a Trapped event returned by ContinueAndWait lists at least
\* one thread, and every thread it lists was listed in the stop reply and
\* reports SIGTRAP in its own stop info; a stop none of whose threads reports
\* SIGTRAP returns no event: the inferior is resumed with the signal of that
\* stop.
NoTrapStops ==
    {b \in Batches :
        LET r == processOutputPacket(b).rest
        IN /\ r # <<>> /\ Head(r).kind = "T"
           /\ \A t \in Head(r).threads : Head(r).info[t] # "SIGTRAP"}
C19_TrappedThreads ==
    /\ []((wst = "returned" /\ event.type = "Trapped") =>
            /\ event.ids # {}
            /\ \A t \in event.ids :
                  t \in evFrom.threads /\ evFrom.info[t] = "SIGTRAP")
    /\ [][\A b \in NoTrapStops : Wait(b) =>
            /\ wst' = "waiting" /\ event' = NoEvent
            /\ resumes' = Append(resumes, Head(processOutputPacket(b).rest).sig)]_vars
\* C19: a Trapped event returned by ContinueAndWait lists at least one thread,
\* and every thread it lists was listed in the stop reply and reports SIGTRAP
\* in its own stop info. A stop for a bad memory access ends the wait with an
\* error, without an event and without a resume. Any other stop none of whose
\* threads reports SIGTRAP returns no event: the inferior is resumed with the
\* signal of that stop.
C19_TrapResumeOrFault ==
    /\ []((wst = "returned" /\ event.type = "Trapped") =>
            /\ event.ids # {}
            /\ \A t \in event.ids :
                  t \in evFrom.threads /\ evFrom.info[t] = "SIGTRAP")
    /\ [][\A b \in NoTrapStops : Wait(b) =>
            IF Head(processOutputPacket(b).rest).sig = "EXC_BAD_ACCESS"
            THEN /\ wst' = "returned" /\ event' = NoEvent
                 /\ waitErr' = "bad memory access" /\ resumes' = resumes
            ELSE /\ wst' = "waiting" /\ event' = NoEvent
                 /\ resumes' = Append(resumes, Head(processOutputPacket(b).rest).sig)]_vars
C19_Witness ==
    /\ wst = "returned" /\ event.type = "Trapped" /\ event.ids = {2}
    /\ evFrom.threads = {1, 2}
    /\ Len(resumes) = 2 /\ resumes[2] = "SIGSTOP"

\* C20: however a session ends (detach, exit of the inferior, interrupt, an
\* error of launch, attach or initialization), the connection to the debug
\* server is closed and the memory allocated in the inferior for the TLS-read
\* stub is released.
ExitReturned == wst = "returned" /\ event.type \in {"Exited", "Terminated"}
SessionOver == sess = "ended" \/ (sess = "ready" /\ ExitReturned)
\* The inferior is gone, and its memory with it: it exited, or the detach
\* killed it.
InferiorGone ==
    \/ ExitReturned
    \/ endedBy \in {"detach", "interrupt"} /\ killOnDetach /\ sessErr = "nil"
C20_AllReleased ==
    SessionOver => (~connOpen /\ (allocated = {} \/ InferiorGone))
C20_Witness ==
    /\ sess = "ended" /\ endedBy = "interrupt" /\ ~killOnDetach
    /\ wst = "returned" /\ event.type = "Trapped"

\* What a helper's result, alone, makes waitConnectOrExit return.
OutcomeOf(r) ==
    IF r = "exit" THEN Received("waitCh", "nil")
    ELSE Received("connCh", IF r = "accept" THEN "conn" ELSE "nil")

\* C21 as stated: the helper whose result came first decides what
\* waitConnectOrExit returns: an exit of the debug server before a connection
\* was accepted gives an error and no connection, a connection accepted first
\* is returned, a failed accept gives an error.
C21_FirstResolvedDecides ==
    mpc = "returned" =>
        /\ wret.conn = OutcomeOf(Head(order)).conn
        /\ (wret.err = "nil") = (OutcomeOf(Head(order)).err = "nil")

\* C21: waitConnectOrExit returns the outcome of a helper whose result has
\* come; it is the outcome of the first result whenever the caller is parked
\* in the select when that result comes or only one result has come when the
\* caller reaches the select; a nil connection is never returned without an
\* error, and a failed accept gives an error.
C21_ReceivedDecides ==
    /\ [](mpc = "returned" =>
            /\ \E i \in DOMAIN order : wret = OutcomeOf(order[i])
            /\ ~(wret.conn = "nil" /\ wret.err = "nil")
            /\ wret.conn = "conn" => accepted = "conn")
    /\ [][(mpc # "returned" /\ mpc' = "returned" /\ (mpc = "select" \/ Len(order) = 1))
            => wret' = OutcomeOf(Head(order'))]_vars
C21_Witness ==
    /\ mpc = "returned" /\ order = <<"acceptError", "exit">>
    /\ wret = [conn |-> "nil", err |-> "failed to accept the connection"]

\* C22: both launch helpers have terminated when the session is established
\* and MainLoop can begin, and once waitConnectOrExit has returned no helper
\* is blocked on a send that nobody will receive, on the accept-error path
\* too.
C22_HelpersJoined ==
    /\ sess = "ready" => (wpc \in {"none", "done"} /\ apc \in {"none", "done"})
    /\ mpc = "returned" => (wpc # "sending" /\ apc \notin {"sendNil", "sendConn"})
C22_Witness ==
    /\ mpc = "returned" /\ accepted = "nil" /\ apc = "sendConn"
    /\ wret.err = "failed to accept the connection"

\* C23: an Attach received while a controller is set is rejected with
\* "already attached"; the controller, its MainLoop and the interrupts stay as
\* they are and no further MainLoop is started.
C23_SecondAttachRejected ==
    [][(controller # 0 /\ \E ok \in BOOLEAN : Attach(ok)) =>
        /\ reply' = [call |-> "Attach", err |-> "already attached"]
        /\ UNCHANGED <<controller, made, mtx, loop, loopErr, intr, rcv>>]_vars
C23_Witness ==
    /\ reply = [call |-> "Attach", err |-> "already attached"]
    /\ controller = 1 /\ loop[1] = "running" /\ loop[2] = "none"

\* C24: when a Detach of an attached service has run to its end (the result
\* of the MainLoop was received, the mutex released), no controller is set;
\* a trace-point request made while none is set returns nil and touches no
\* controller; an Attach made then is accepted: with AttachTracee succeeding
\* it sets a new controller and starts its MainLoop.
C24_DetachedThenFresh ==
    /\ [][Unlock => (controller' = 0 /\ svcLog.received # <<>>)]_vars
    /\ [][(controller = 0 /\
            \E w \in {"AddStartTracePoint", "AddEndTracePoint"} : AddTracePoint(w)) =>
           (reply'.err = "nil" /\ svcLog' = svcLog /\ controller' = 0)]_vars
    /\ [][(controller = 0 /\ Attach(TRUE)) =>
           /\ reply' = [call |-> "Attach", err |-> "nil"]
           /\ controller' = made + 1 /\ loop[controller'] = "none"
           /\ loop'[controller'] = "running"]_vars
C24_Witness ==
    /\ svcLog.received = <<1>> /\ svcLog.resetAfter = <<1>> /\ svcLog.touched = {}
    /\ controller = 2 /\ loop[2] = "running" /\ mtx = "free"

\* C25: the all-zero buffer of a primitive type is rendered as the zero
\* literal of the type: 0 for the integers of every size, signed and
\* unsigned, false for bool, "" for a string, nil for a slice; for a pointer
\* the text does not start with & and no memory of the inferior is read.
ZeroBuffer == valBuf = [i \in 1..valTyp.size |-> 0]
DerefTexts == {"&" \o parseScalar(int8Type, <<b>>) : b \in Bytes}
C25_ZeroLiterals ==
    (rendered # "" /\ ZeroBuffer) =>
        /\ valTyp.kind \in {"int", "uint"} => rendered = "0"
        /\ valTyp.kind = "bool" => rendered = "false"
        /\ valTyp.kind = "string" => rendered = Quote("")
        /\ valTyp.kind = "slice" => rendered = "nil"
        /\ valTyp.kind \in {"ptr", "voidptr"} =>
              (rendered \notin DerefTexts /\ valReads = 0)
C25_Witness ==
    /\ ZeroBuffer /\ valTyp.kind = "ptr" /\ valMem.ok
    /\ rendered = "0x0"

\* C26: whenever a controller is set its MainLoop goroutine has been started,
\* and whenever the goroutine of Detach waits on errCh, holding the mutex,
\* a MainLoop goroutine is there that will send: no Detach waits for good,
\* also after an Attach whose AttachTracee failed.
C26_LoopBehindController ==
    /\ controller # 0 => loop[controller] # "none"
    /\ rcv = "waiting" => \E c \in Controllers : loop[c] \in {"running", "sending"}
C26_Witness ==
    /\ controller = 1 /\ loop[1] = "none"
    /\ rcv = "waiting" /\ mtx = "held"

\* C27: in every interleaving of the calls, a result a MainLoop goroutine
\* sends on errCh is received once, by the goroutine of one Detach; the
\* controller is reset to nil only after the result of its MainLoop was
\* received; the mutex is held from the Interrupt to the reset; so at most
\* one MainLoop goroutine is alive at a time, and no trace point is added to
\* a controller that Detach has interrupted.
LiveLoops == {c \in Controllers : loop[c] \in {"running", "sending"}}
C27_OneLoopOneReceive ==
    /\ \A i, j \in DOMAIN svcLog.received :
          svcLog.received[i] = svcLog.received[j] => i = j
    /\ \A c \in Controllers :
          loop[c] = "done" <=> \E i \in DOMAIN svcLog.received : svcLog.received[i] = c
    /\ Len(svcLog.resetAfter) <= Len(svcLog.received)
    /\ \A i \in DOMAIN svcLog.resetAfter : svcLog.resetAfter[i] = svcLog.received[i]
    /\ (controller # 0 /\ controller \in intr) => mtx = "held"
    /\ Cardinality(LiveLoops) <= 1
    /\ svcLog.tornDown = {}
C27_Witness ==
    /\ svcLog.received = <<1, 2>> /\ svcLog.resetAfter = <<1, 2>>
    /\ svcLog.touched = {1, 2} /\ mtx = "free"

\* C28: whenever ReadTLS steps a thread at the stub, the stub memory holds
\* the load sequence of the requested offset, for every sequence of requested
\* offsets, a first request for offset 0 included.
C28_StubMatchesOffset ==
    tlsLog.stepped => tlsLog.stubAtStep = tlsLog.off
C28_Witness ==
    /\ tlsLog.stepped /\ tlsLog.off = 0 /\ tlsLog.stubAtStep = NotWritten
    /\ tlsRet.err = "nil" /\ tlsRet.val = Garbage

ThreadSets == {{1}, {1, 2}}
FirstStopped(infos) == CHOOSE t \in Stopped(infos) : \A u \in Stopped(infos) : t <= u

\* C29 as stated: after a read that timed out, when some thread reports a
\* stop other than T00 the wait ends with the event of the first such reply,
\* and when every thread reports T00 the client waits on without an event.
C29_ProbeEndsWait ==
    [][\A infos \in StopInfos, th \in ThreadSets :
        WaitTimeout(infos, th, FALSE) =>
            IF Stopped(infos) = {}
            THEN wst' = "waiting" /\ event' = NoEvent
            ELSE /\ wst' = "returned" /\ event'.type = "Trapped"
                 /\ evFrom' = StopInfoOf(FirstStopped(infos), infos, th)]_vars

\* C29: after a read that timed out the stop info of the threads is asked
\* for. When every thread reports T00 the client waits on without an event.
\* Else the first reply other than T00 is handled as a stop reply: with a
\* listed thread reporting SIGTRAP the wait ends with the Trapped event built
\* from that reply, without one the inferior is resumed with the signal of
\* the reply and the client waits on. A failing request ends the wait with
\* an error, and so does a first reply that reports a bad memory access.
C29_ProbeHandledAsStop ==
    [][\A infos \in StopInfos, th \in ThreadSets :
        /\ WaitTimeout(infos, th, TRUE) =>
              (wst' = "returned" /\ waitErr' # "nil" /\ event' = NoEvent)
        /\ WaitTimeout(infos, th, FALSE) =>
              IF Stopped(infos) = {}
              THEN wst' = "waiting" /\ event' = NoEvent /\ resumes' = resumes
              ELSE LET p == StopInfoOf(FirstStopped(infos), infos, th)
                       tr == {t \in p.threads : infos[t] = "SIGTRAP"}
                   IN IF p.sig = "EXC_BAD_ACCESS"
                      THEN /\ wst' = "returned" /\ event' = NoEvent
                           /\ waitErr' = "bad memory access" /\ resumes' = resumes
                      ELSE IF tr = {}
                      THEN /\ wst' = "waiting" /\ event' = NoEvent
                           /\ resumes' = Append(resumes, p.sig)
                      ELSE /\ wst' = "returned" /\ waitErr' = "nil"
                           /\ event' = [type |-> "Trapped", ids |-> tr]
                           /\ evFrom' = p]_vars
C29_Witness ==
    /\ wst = "returned" /\ event = [type |-> "Trapped", ids |-> {1}]
    /\ evFrom.info = [t \in Tasks |-> IF t = 1 THEN "SIGTRAP" ELSE "none"]
    /\ batches = 2 /\ resumes = <<"none">>

\* C30: when a read delivers two or more stop replies besides the output
\* packets, the first of them alone decides what the read does: the event
\* returned is built from it, and the others are discarded, an exit (W) or
\* termination (X) report too; nothing of them is kept, so no later wait
\* returns them.
C30_FirstReplyOnly ==
    /\ []((wst = "returned" /\ waitErr = "nil") =>
            event = handleStopReply(<<evFrom>>).event)
    /\ [][\A b \in Batches :
            LET r == processOutputPacket(b).rest
            IN (Wait(b) /\ Len(r) >= 2) =>
                 LET h == handleStopReply(<<Head(r)>>)
                 IN IF h.resume
                    THEN /\ wst' = "waiting" /\ resumes' = Append(resumes, h.sig)
                         /\ UNCHANGED <<event, evFrom, pendingSignal, connOpen>>
                    ELSE /\ wst' = "returned" /\ event' = h.event
                         /\ evFrom' = Head(r)
                         /\ pendingSignal' = h.pending
                         /\ connOpen' = (h.event.type \notin {"Exited", "Terminated"})
                         /\ resumes' = resumes]_vars
C30_Witness ==
    /\ wst = "returned" /\ event.type = "Trapped" /\ "W" \in dropped
    /\ connOpen

\* C31 as stated: a signal other than SIGTRAP that stops the inferior is not
\* dropped and not delivered twice: every stop reply read that carries one
\* either resumes the inferior with it at once (no trapped thread) or leaves
\* it as the pending signal; a continue or step passes the pending signal;
\* after a returned stop with SIGTRAP the pending signal is 0.
SignalStops(b) ==
    LET r == processOutputPacket(b).rest
    IN {r[i] : i \in {j \in DOMAIN r : r[j].kind = "T" /\ r[j].sig # "SIGTRAP"}}
PendingAfter(p) == IF p.sig = "SIGTRAP" THEN "none" ELSE p.sig
C31_SignalNeverLost ==
    /\ [][\A b \in StepBatches : Wait(b) =>
            \A p \in SignalStops(b) :
                IF selectTrappedThreads(p.threads, p.info) = {}
                THEN resumes' = Append(resumes, p.sig)
                ELSE pendingSignal' = p.sig]_vars
    /\ [][(wst # "waiting" /\ wst' = "waiting") => resumes' = <<pendingSignal>>]_vars
    /\ []((wst = "returned" /\ waitErr = "nil" /\ evFrom.kind = "T") =>
            pendingSignal = PendingAfter(evFrom))

\* C31: the stop reply a read handles is the first one left after the output
\* packets. Unless it reports a bad memory access, its signal is passed on at
\* once with the resume when no thread is trapped, and else recorded as
\* pending: the signal itself, or 0 for SIGTRAP. The next continue or step
\* passes the pending signal, and as every returned stop records it anew no
\* signal is passed by two calls.
C31_HandledSignalKept ==
    /\ [][\A b \in StepBatches :
            LET r == processOutputPacket(b).rest
            IN (Wait(b) /\ r # <<>> /\ Head(r).kind = "T"
                        /\ Head(r).sig # "EXC_BAD_ACCESS") =>
                 IF selectTrappedThreads(Head(r).threads, Head(r).info) = {}
                 THEN /\ resumes' = Append(resumes, Head(r).sig)
                      /\ pendingSignal' = pendingSignal /\ wst' = "waiting"
                 ELSE /\ pendingSignal' = PendingAfter(Head(r))
                      /\ resumes' = resumes /\ wst' = "returned"]_vars
    /\ [][(wst # "waiting" /\ wst' = "waiting") => resumes' = <<pendingSignal>>]_vars
    /\ []((wst = "returned" /\ waitErr = "nil" /\ evFrom.kind = "T") =>
            pendingSignal = PendingAfter(evFrom))
\* A pending SIGSTOP was passed with a step, and the trap that followed
\* cleared it.
C31_Witness ==
    /\ step = [thread |-> 2, ret |-> "nil"] /\ resumes = <<"SIGSTOP">>
    /\ wst = "returned" /\ event.type = "Trapped" /\ pendingSignal = "none"

\* C32: DetachProcess sends k, and returns without error exactly on a reply
\* X09, when the session was started by LaunchProcess; it sends D, and
\* returns without error exactly on the reply OK, when the session was
\* started by AttachProcess; whatever the request returned, the connection
\* is closed when DetachProcess has returned.
C32_KillOrDetachThenClose ==
    /\ [](sessLog.cmd = "k" <=> (sessLog.way = "launch" /\ endedBy \in {"detach", "interrupt"}))
    /\ [](sessLog.cmd = "D" <=> (sessLog.way = "attach" /\ endedBy \in {"detach", "interrupt"}))
    /\ [](endedBy \in {"detach", "interrupt"} => ~connOpen)
    /\ [][\A why \in {"detach", "interrupt"}, r \in DetachReplies :
            DetachProcess(why, r) =>
                (sessErr' = "nil" <=> r = (IF sessLog.way = "launch" THEN "X09" ELSE "OK"))]_vars
\* An attached session was detached from and the reply was an error.
C32_Witness ==
    /\ sessLog = [way |-> "attach", cmd |-> "D"]
    /\ sessErr = "the error response is returned" /\ ~connOpen

\* C33: outside no-ack mode every packet sent carries the checksum of its
\* body modulo 256 and its '+' is waited for, and every reply read is
\* verified and, when the verification accepts it, acknowledged; that is so
\* for every packet up to QStartNoAckMode, which is the first. No-ack mode is
\* entered only by the reply OK to QStartNoAckMode and is never left; in it
\* every packet is sent with the checksum 00, no '+' is waited for, and no
\* reply is verified or acknowledged.
C33_AckUntilNoAckMode ==
    /\ [][\A ack \in {"+", "-"} :
            (InitSend(ack) \/ \E c \in LaterCommands : LaterSend(c, ack)) =>
                IF noAckMode
                THEN sent'.cc = <<"0", "0">> /\ ~sent'.awaited
                ELSE /\ sent'.cc = HexOfByte(calcChecksum(sent'.body))
                     /\ sent'.awaited
                     /\ (ack # "+" => ipc'.at = "failed")]_vars
    /\ [][\A r \in Replies, good \in BOOLEAN :
            (InitReceive(r, good) \/ LaterReceive(r, good)) =>
                IF noAckMode
                THEN ~rcvd'.verified /\ ~rcvd'.acked
                ELSE /\ rcvd'.verified
                     /\ rcvd'.acked <=>
                           verifyPacket(Packet(r.bytes,
                               IF good THEN HexOfByte(calcChecksum(r.bytes))
                               ELSE <<"z", "z">>)) = "nil"
                     /\ (~rcvd'.acked => ipc'.at = "failed")]_vars
    /\ [][(~noAckMode /\ noAckMode') =>
            /\ Requests[ipc.req].name = "QStartNoAckMode" /\ ipc.at = "receive"
            /\ sent.body = Requests[1].bytes
            /\ rcvd'.body = <<79, 75>> /\ rcvd'.acked]_vars
    /\ [][noAckMode => noAckMode']_vars
    /\ [](ipc.req > 1 => noAckMode)
\* In no-ack mode a later command was sent with the checksum 00.
C33_Witness ==
    /\ noAckMode /\ ipc.at = "reply"
    /\ sent = [body |-> <<118, 67, 111, 110, 116, 59, 99>>, cc |-> <<"0", "0">>, awaited |-> FALSE]
    /\ rcvd.body = <<49, 48, 48, 48>> /\ ~rcvd.verified

\* C34: verifyPacket accepts $<body>#<cc> exactly when cc is the checksum of
\* the body, the sum of its bytes modulo 256 in two hexadecimal digits; so
\* it accepts every packet send() builds in acknowledgement mode, whatever
\* the checksum is between 0x00 and 0xff.
C34_AcceptsItsChecksum ==
    fnRes.err # "none" =>
        /\ fnRes.err = "nil" <=> fnRes.cc = HexOfByte(calcChecksum(fnArg))
        /\ fnRes.built => fnRes.err = "nil"
\* A packet built by send() whose checksum is below 0x10 was verified.
C34_Witness ==
    /\ fnArg = <<10>> /\ fnRes.err # "none" /\ fnRes.built
    /\ fnRes.cc = <<"0", "a">>

\* C35: the offset of a parameter is 0 for an expression that begins with
\* call_frame_cfa; for one that begins with fbreg it is the value of the
\* signed LEB128 operand that follows, as the reference decoder gives it for
\* every well-formed encoding of one byte or more; for another first
\* operation and for the empty expression the parameter is marked as not
\* present; no error is returned.
RECURSIVE RefSLEB(_)
RefSLEB(bytes) ==
    IF Head(bytes) < 128
    THEN (IF Head(bytes) >= 64 THEN Head(bytes) - 128 ELSE Head(bytes))
    ELSE (Head(bytes) - 128) + 128 * RefSLEB(Tail(bytes))
RECURSIVE Operand(_)
Operand(bytes) ==
    IF Head(bytes) < 128 THEN <<Head(bytes)>> ELSE <<Head(bytes)>> \o Operand(Tail(bytes))
WellFormed(bytes) == \E i \in DOMAIN bytes : bytes[i] < 128
C35_FrameOffset ==
    (fnRes # NoRes /\ (fnArg # <<>> /\ Head(fnArg) = dwarfOpFbreg => WellFormed(Tail(fnArg)))) =>
        /\ fnRes.err = "nil"
        /\ IF fnArg = <<>> THEN ~fnRes.exist
           ELSE IF Head(fnArg) = dwarfOpCallFrameCFA
           THEN fnRes.exist /\ fnRes.offset = 0
           ELSE IF Head(fnArg) = dwarfOpFbreg
           THEN fnRes.exist /\ fnRes.offset = RefSLEB(Operand(Tail(fnArg)))
           ELSE ~fnRes.exist
\* fbreg with the three-byte operand of a negative offset.
C35_Witness ==
    /\ fnArg = <<dwarfOpFbreg, 128, 255, 127>>
    /\ fnRes = [offset |-> 0 - 128, exist |-> TRUE, err |-> "nil"]

\* C36: origin chasing ends on every graph of entries, a graph with a cycle
\* of abstract_origin references too: with success at the first entry the
\* walk function accepts, with the error of a missing origin when no
\* accepted entry can be reached, and without visiting an entry twice.
RECURSIVE Chain(_, _, _)
Chain(g, e, n) ==
    IF n = 0 \/ e = 0 THEN <<>> ELSE <<e>> \o Chain(g, g.origin[e], n - 1)
Reachable(g) == {Chain(g, g.start, Cardinality(Entries))[i] :
                    i \in DOMAIN Chain(g, g.start, Cardinality(Entries))}
C36_WalkEndsOnEveryGraph ==
    /\ \A i, j \in DOMAIN fnRes.visited : i # j => fnRes.visited[i] # fnRes.visited[j]
    /\ fnRes.err # "none" =>
          /\ fnRes.err \in {"nil", "failed to find abstract origin"}
          /\ fnRes.err = "nil" <=> Reachable(fnArg) \cap fnArg.accepts # {}
          /\ fnRes.err = "nil" =>
                /\ fnRes.at \in fnArg.accepts
                /\ \A i \in 1..(Len(fnRes.visited) - 1) :
                      fnRes.visited[i] \notin fnArg.accepts
\* The walk ran around a cycle of two entries until the stack was used up.
C36_Witness ==
    /\ fnArg.origin[1] = 2 /\ fnArg.origin[2] = 1 /\ fnArg.start = 1
    /\ fnRes.err = "stack overflow" /\ fnRes.visited = <<1, 2, 1, 2, 1>>

\* C37: parseValue ends for every type and every content of the inferior's
\* memory, also on data in which a pointer or an interface value reaches
\* itself without a struct level in between: the nesting of its calls stays
\* below the room of the stack.
C37_ParseValueEnds == fnRes.err # "stack overflow"
\* An interface{} that holds a pointer to itself was parsed until the stack
\* was used up.
C37_Witness ==
    /\ fnArg.typ = "eface" /\ fnArg.val = [ptr |-> 1, rtype |-> "*eface"]
    /\ fnArg.mem[1] = fnArg.val
    /\ fnRes.err = "stack overflow"

\* C39: a struct is abbreviated, and so rendered {...}, exactly when the
\* budget left at it is zero, the budget left being the budget parsing
\* started with less one for each struct of the program entered on the way:
\* the slice, the pointers and the interface values on the way take nothing.
\* (A call that finds the stack used up parses nothing.)
BudgetLeft == fnArg.depth - fnRes.levels
ReadFailed == rendered # "" /\ valReads >= 1 /\ ~valMem.ok
C38_ReadFailurePrintable == ReadFailed => rendered # "panic"
\* The array of a slice of two elements could not be read, and the parser
\* asked the missing first element for its size.
C38_Witness ==
    /\ ReadFailed /\ valTyp.kind = "slice"
    /\ LittleEndian(SubSeq(valBuf, 9, 16)) = 2
    /\ rendered = "panic"

\* C40: an array of N elements is printed with N between the brackets, for
\* every N, followed by at most 8 elements, and ends with ", ..." exactly
\* when elements were left out.
ArrayPrinted == fnRes # NoRes /\ fnArg.count >= 0
C40_ArrayPrefixIsLength ==
    ArrayPrinted =>
        /\ fnRes.n = fnArg.count
        /\ Len(fnRes.vals) <= maxContainerItemsToPrint
        /\ fnRes.abbrev <=> Len(fnRes.vals) < fnArg.count
\* An array of nine elements was printed as [8]{..., ...}.
C40_Witness ==
    /\ ArrayPrinted /\ fnArg.count = 9 /\ fnArg.val = [i \in 1..9 |-> 0]
    /\ fnRes.text = "[8]{0, 0, 0, 0, 0, 0, 0, 0, ...}"
====
